---------------------------- MODULE Spec2Model ----------------------------
(***************************************************************************)
(* Experiment assignment, event logging and metrics of OmniSearch:         *)
(*   services/ab_testing.py      ExperimentManager                         *)
(*   services/click_tracking.py  ClickTrackingService                      *)
(*                                                                         *)
(* SpecSeq   one caller at a time, every ExperimentManager method is one   *)
(*           atomic action.                                                *)
(* Spec      several callers of one ExperimentManager whose calls          *)
(*           interleave between the reads and writes of the store.         *)
(* SpecClick the ClickTrackingService over its two collections.            *)
(* SpecStats the statistics the ClickTrackingService computes from what    *)
(*           its queries find.                                             *)
(***************************************************************************)
EXTENDS Integers, Sequences, FiniteSets, Bags

\* ------------------------------------------------------------------ bounds
MaxLog == 2
MaxClock == 1
MaxLimit == 2
MaxImpressions == 3
MaxClicks == 2
MaxSample == 3
MaxCandidates == 3

\* --------------------------------------------------------------- constants
\* Python's None where an object is expected, and where a str is expected
None == [none |-> TRUE]
NoArg == "None"
Users == {"u1", "u2"}
Metadatas == {NoArg}
Backends == {"memory", "redis", "file"}

\* the callers of Spec
Procs == {"p1", "p2"}

\* ExperimentVariant members, in the order of self.variants
variants == <<"SEARCH_V1", "SEARCH_V2">>

VARIABLES
    storage_backend,    \* self.storage_backend
    _assignments,       \* self._assignments : user_id -> ExperimentAssignment
    _events,            \* self._events : list of ExperimentEvent
    redis_assignment,   \* redis keys ab:assignment:{user_id}
    redis_events,       \* length of the redis lists ab:events:{user_id}
    log_file,           \* number of lines of the JSONL file self.log_file
    now,                \* the clock datetime.utcnow() reads
    out,                \* what the last call returned to its caller
    first_assigned,     \* history: what the first assign_variant(u) since the
                        \* last reset returned
    pc,                 \* Spec: where each caller is inside its call
    frame,              \* Spec: the local variables of each caller's call
    db,                 \* ClickTrackingService.db is not None
    clicks_collection,  \* the documents of omnisearch.clicks
    impressions_collection  \* the documents of omnisearch.impressions

mgrVars == <<storage_backend, _assignments, _events, redis_assignment,
             redis_events, log_file>>
procVars == <<pc, frame>>
clickVars == <<db, clicks_collection, impressions_collection>>
vars == <<storage_backend, _assignments, _events, redis_assignment,
          redis_events, log_file, now, out, first_assigned, pc, frame,
          db, clicks_collection, impressions_collection>>

\* ------------------------------------------------------------ conversions
\* ExperimentVariant.value
VariantValue(v) == IF v = "SEARCH_V1" THEN "search_v1" ELSE "search_v2"

\* ExperimentVariant(s): the member whose value is s
VariantOf(s) == IF s = "search_v1" THEN "SEARCH_V1" ELSE "SEARCH_V2"

\* datetime.isoformat() and datetime.fromisoformat()
isoformat(t) == <<"iso", t>>
fromisoformat(s) == s[2]

\* ExperimentAssignment.to_dict
AssignmentToDict(a) ==
    [user_id |-> a.user_id, variant |-> VariantValue(a.variant),
     assigned_at |-> isoformat(a.assigned_at), metadata |-> a.metadata]

\* the ExperimentAssignment get_assignment rebuilds from the stored JSON
AssignmentFromDict(d) ==
    [user_id |-> d.user_id, variant |-> VariantOf(d.variant),
     assigned_at |-> fromisoformat(d.assigned_at), metadata |-> d.metadata]

\* SearchEvent.to_dict / ClickEvent.to_dict
EventToDict(e) ==
    [user_id |-> e.user_id, variant |-> VariantValue(e.variant),
     timestamp |-> isoformat(e.timestamp), event_type |-> e.event_type]

\* ------------------------------------------------------------------ store
\* ExperimentManager.get_assignment
get_assignment(user_id) ==
    IF storage_backend = "memory" THEN _assignments[user_id]
    ELSE IF storage_backend = "redis"
         THEN IF redis_assignment[user_id] # None
              THEN AssignmentFromDict(redis_assignment[user_id])
              ELSE None
         ELSE None

\* ExperimentManager._store_assignment
_store_assignment(assignment) ==
    /\ _assignments' =
         IF storage_backend = "memory"
         THEN [_assignments EXCEPT ![assignment.user_id] = assignment]
         ELSE _assignments
    /\ redis_assignment' =
         IF storage_backend = "redis"
         THEN [redis_assignment EXCEPT
                 ![assignment.user_id] = AssignmentToDict(assignment)]
         ELSE redis_assignment

\* log_event as it would be if it pushed the event at the head of the list,
\* the way it pushes to redis
log_event_AtHead(event) ==
    /\ _events' = <<event>> \o _events
    /\ log_file' = log_file + 1
    /\ redis_events' =
         IF storage_backend = "redis"
         THEN [redis_events EXCEPT ![event.user_id] = @ + 1]
         ELSE redis_events

\* ExperimentManager.log_event; log_file counts the lines the call writes (a
\* failed write is logged and swallowed, and changes nothing else)
log_event(event) ==
    /\ _events' = Append(_events, event)
    /\ log_file' = log_file + 1
    /\ redis_events' =
         IF storage_backend = "redis"
         THEN [redis_events EXCEPT ![event.user_id] = @ + 1]
         ELSE redis_events

\* assign_variant as it would be without its early return
HasExisting_Never(existing) == FALSE

\* `if existing: return existing`
HasExisting(existing) == existing # None

\* the ExperimentAssignment assign_variant constructs
NewAssignment(user_id, variant, metadata) ==
    [user_id |-> user_id, variant |-> variant, assigned_at |-> now,
     metadata |-> IF metadata = NoArg THEN "{}" ELSE metadata]

\* SearchEvent(...) / ClickEvent(...), stamped by the default_factory
NewEvent(user_id, variant, event_type) ==
    [user_id |-> user_id, variant |-> variant, timestamp |-> now,
     event_type |-> event_type]

\* history of the first value assign_variant returned for user_id
NoteAssigned(user_id, a) ==
    first_assigned' =
        IF first_assigned[user_id] = None
        THEN [first_assigned EXCEPT ![user_id] = a]
        ELSE first_assigned

\* --------------------------------------------------------------- queries
\* the truth value Python gives an optional str argument
Truthy(x) == x # NoArg /\ x # ""

\* seq[start:] of Python, for any integer start
SliceFrom(seq, start) ==
    LET n == Len(seq)
        lo == IF start < 0
              THEN (IF n + start < 0 THEN 0 ELSE n + start)
              ELSE (IF start > n THEN n ELSE start)
    IN SubSeq(seq, lo + 1, n)

\* a sequence read backwards
Reverse(seq) == [i \in 1..Len(seq) |-> seq[Len(seq) + 1 - i]]

\* get_events as it would be if it returned the newest event first
LastEvents_NewestFirst(events, limit) == Reverse(SliceFrom(events, 0 - limit))

\* events[-limit:]
LastEvents(events, limit) == SliceFrom(events, 0 - limit)

\* the three list comprehensions of get_events
MatchesFilters(e, user_id, variant, event_type) ==
    /\ Truthy(user_id) => e.user_id = user_id
    /\ Truthy(variant) => e.variant = variant
    /\ Truthy(event_type) => e.event_type = event_type

\* ExperimentManager.get_events
get_events(user_id, variant, event_type, limit) ==
    LastEvents(SelectSeq(_events,
                 LAMBDA e : MatchesFilters(e, user_id, variant, event_type)),
               limit)

\* sum(1 for e in ... if e.variant == variant) over one class of event
CountEvents(event_type, variant) ==
    Len(SelectSeq(_events,
          LAMBDA e : e.event_type = event_type /\ e.variant = variant))

\* a Python float that is the quotient num / den
Quotient(num, den) == [num |-> num, den |-> den]

\* `clicks / searches if searches > 0 else 0`
VariantCtr(clicks, searches) ==
    IF searches > 0 THEN Quotient(clicks, searches) ELSE Quotient(0, 1)

\* the "search_v1" / "search_v2" entry of get_metrics
VariantMetrics(variant) ==
    LET searches == CountEvents("search", variant)
        clicks == CountEvents("click", variant)
    IN [count |-> searches, clicks |-> clicks,
        ctr |-> VariantCtr(clicks, searches)]

\* ExperimentManager.get_metrics (the two averages are not modelled: events
\* carry no search_time_ms and results_count here)
get_metrics ==
    [total_events |-> Len(_events),
     total_assignments |-> Cardinality({u \in Users : _assignments[u] # None}),
     search_events |-> Len(SelectSeq(_events, LAMBDA e : e.event_type = "search")),
     click_events |-> Len(SelectSeq(_events, LAMBDA e : e.event_type = "click")),
     search_v1 |-> VariantMetrics("SEARCH_V1"),
     search_v2 |-> VariantMetrics("SEARCH_V2")]


\* the frame of a caller that is in no call
NoFrame == [op |-> "none", user_id |-> NoArg, metadata |-> NoArg,
            existing |-> None, assignment |-> None, event |-> None]

\* ------------------------------------------------- SpecSeq: atomic methods
\* ExperimentManager.assign_variant
AssignVariant(user_id, metadata) ==
    LET existing == get_assignment(user_id) IN
    IF HasExisting(existing)
    THEN /\ out' = [op |-> "assign_variant", user_id |-> user_id,
                    value |-> existing]
         /\ NoteAssigned(user_id, existing)
         /\ UNCHANGED <<mgrVars, now, procVars, clickVars>>
    ELSE \E variant \in {variants[1], variants[2]} :
           LET assignment == NewAssignment(user_id, variant, metadata) IN
           /\ _store_assignment(assignment)
           /\ out' = [op |-> "assign_variant", user_id |-> user_id,
                      value |-> assignment]
           /\ NoteAssigned(user_id, assignment)
           /\ UNCHANGED <<storage_backend, _events, redis_events, log_file,
                          now, procVars, clickVars>>

\* ExperimentManager.get_assignment, called by a client
GetAssignment(user_id) ==
    /\ out' = [op |-> "get_assignment", user_id |-> user_id,
               value |-> get_assignment(user_id)]
    /\ UNCHANGED <<mgrVars, now, first_assigned, procVars, clickVars>>

\* ExperimentManager.log_search and ExperimentManager.log_click:
\*   assignment = self.get_assignment(u) or self.assign_variant(u)
LogCall(op, event_type, user_id) ==
    /\ log_file < MaxLog
    /\ LET existing == get_assignment(user_id) IN
       IF HasExisting(existing)
       THEN LET event == NewEvent(user_id, existing.variant, event_type) IN
            /\ log_event(event)
            /\ out' = [op |-> op, user_id |-> user_id, value |-> event]
            /\ UNCHANGED <<storage_backend, _assignments, redis_assignment,
                           now, first_assigned, procVars, clickVars>>
       ELSE \E variant \in {variants[1], variants[2]} :
              LET assignment == NewAssignment(user_id, variant, NoArg)
                  event == NewEvent(user_id, assignment.variant, event_type)
              IN
              /\ _store_assignment(assignment)
              /\ NoteAssigned(user_id, assignment)
              /\ log_event(event)
              /\ out' = [op |-> op, user_id |-> user_id, value |-> event]
              /\ UNCHANGED <<storage_backend, now, procVars, clickVars>>

LogSearch(user_id) == LogCall("log_search", "search", user_id)

LogClick(user_id) == LogCall("log_click", "click", user_id)

\* the arguments a caller may pass to get_events
UserFilters == Users \cup {NoArg, ""}
VariantFilters == {variants[1], variants[2], NoArg}
TypeFilters == {"search", "click", NoArg, ""}
Limits == 0..MaxLimit

\* ExperimentManager.get_events, called by a client
GetEvents(user_id, variant, event_type, limit) ==
    /\ out' = [op |-> "get_events",
               value |-> get_events(user_id, variant, event_type, limit)]
    /\ UNCHANGED <<mgrVars, now, first_assigned, procVars, clickVars>>

\* ExperimentManager.get_metrics, called by a client
GetMetrics ==
    /\ out' = [op |-> "get_metrics", value |-> get_metrics]
    /\ UNCHANGED <<mgrVars, now, first_assigned, procVars, clickVars>>

\* ExperimentManager.reset
Reset ==
    /\ _assignments' = [u \in Users |-> None]
    /\ _events' = <<>>
    /\ first_assigned' = [u \in Users |-> None]
    /\ out' = [op |-> "reset"]
    /\ UNCHANGED <<storage_backend, redis_assignment, redis_events, log_file,
                   now, procVars, clickVars>>

\* time passes
Tick ==
    /\ now < MaxClock
    /\ now' = now + 1
    /\ UNCHANGED <<mgrVars, out, first_assigned, procVars, clickVars>>

\* ------------------------------------ Spec: the methods, statement by statement
\* the log calls that have not yet appended their event
LogsInFlight == {q \in Procs : frame[q].op \in {"log_search", "log_click"}}

EventTypeOf(op) == IF op = "log_search" THEN "search" ELSE "click"

\* assign_variant, lines 167-170: existing = self.get_assignment(user_id)
AssignBegin(p, user_id, metadata) ==
    /\ pc[p] = "idle"
    /\ LET existing == get_assignment(user_id) IN
       IF HasExisting(existing)
       THEN /\ NoteAssigned(user_id, existing)
            /\ UNCHANGED <<pc, frame>>
       ELSE /\ pc' = [pc EXCEPT ![p] = "assign_draw"]
            /\ frame' = [frame EXCEPT ![p] =
                           [NoFrame EXCEPT !.op = "assign_variant",
                                           !.user_id = user_id,
                                           !.metadata = metadata,
                                           !.existing = existing]]
            /\ UNCHANGED first_assigned
    /\ UNCHANGED <<mgrVars, now, out, clickVars>>

\* assign_variant called by log_search / log_click, lines 167-170
AssignCheck(p) ==
    /\ pc[p] = "assign_check"
    /\ LET existing == get_assignment(frame[p].user_id) IN
       IF HasExisting(existing)
       THEN /\ NoteAssigned(frame[p].user_id, existing)
            /\ frame' = [frame EXCEPT ![p].assignment = existing]
            /\ pc' = [pc EXCEPT ![p] = "log_build"]
       ELSE /\ pc' = [pc EXCEPT ![p] = "assign_draw"]
            /\ frame' = [frame EXCEPT ![p].existing = existing]
            /\ UNCHANGED first_assigned
    /\ UNCHANGED <<mgrVars, now, out, clickVars>>

\* assign_variant, lines 172-183: draw the variant, build the assignment
AssignDraw(p) ==
    /\ pc[p] = "assign_draw"
    /\ \E variant \in {variants[1], variants[2]} :
         frame' = [frame EXCEPT ![p].assignment =
                     NewAssignment(frame[p].user_id, variant,
                                   frame[p].metadata)]
    /\ pc' = [pc EXCEPT ![p] = "assign_store"]
    /\ UNCHANGED <<mgrVars, now, out, first_assigned, clickVars>>

\* assign_variant, lines 185-189: store the assignment and return it
AssignStore(p) ==
    /\ pc[p] = "assign_store"
    /\ _store_assignment(frame[p].assignment)
    /\ NoteAssigned(frame[p].user_id, frame[p].assignment)
    /\ IF frame[p].op = "assign_variant"
       THEN /\ pc' = [pc EXCEPT ![p] = "idle"]
            /\ frame' = [frame EXCEPT ![p] = NoFrame]
       ELSE /\ pc' = [pc EXCEPT ![p] = "log_build"]
            /\ UNCHANGED frame
    /\ UNCHANGED <<storage_backend, _events, redis_events, log_file, now, out,
                   clickVars>>

\* log_search line 270 / log_click line 305: self.get_assignment(user_id) or ...
LogBegin(p, op, user_id) ==
    /\ pc[p] = "idle"
    /\ log_file + Cardinality(LogsInFlight) < MaxLog
    /\ LET existing == get_assignment(user_id)
           f == [NoFrame EXCEPT !.op = op, !.user_id = user_id]
       IN
       IF HasExisting(existing)
       THEN /\ frame' = [frame EXCEPT ![p] = [f EXCEPT !.assignment = existing]]
            /\ pc' = [pc EXCEPT ![p] = "log_build"]
       ELSE /\ frame' = [frame EXCEPT ![p] = f]
            /\ pc' = [pc EXCEPT ![p] = "assign_check"]
    /\ UNCHANGED <<mgrVars, now, out, first_assigned, clickVars>>

\* log_search lines 272-279 / log_click lines 307-315: build the event
LogBuild(p) ==
    /\ pc[p] = "log_build"
    /\ frame' = [frame EXCEPT
                   ![p].event = NewEvent(frame[p].user_id,
                                         frame[p].assignment.variant,
                                         EventTypeOf(frame[p].op)),
                   ![p].assignment = None]
    /\ pc' = [pc EXCEPT ![p] = "log_append"]
    /\ UNCHANGED <<mgrVars, now, out, first_assigned, clickVars>>

\* log_search line 281 / log_click line 317: self.log_event(event)
LogAppend(p) ==
    /\ pc[p] = "log_append"
    /\ log_event(frame[p].event)
    /\ pc' = [pc EXCEPT ![p] = "idle"]
    /\ frame' = [frame EXCEPT ![p] = NoFrame]
    /\ UNCHANGED <<storage_backend, _assignments, redis_assignment, now, out,
                   first_assigned, clickVars>>

\* reset, line 391: self._assignments.clear()
ResetBegin(p) ==
    /\ pc[p] = "idle"
    /\ _assignments' = [u \in Users |-> None]
    /\ first_assigned' = [u \in Users |-> None]
    /\ pc' = [pc EXCEPT ![p] = "reset_events"]
    /\ frame' = [frame EXCEPT ![p] = [NoFrame EXCEPT !.op = "reset"]]
    /\ UNCHANGED <<storage_backend, _events, redis_assignment, redis_events,
                   log_file, now, out, clickVars>>

\* reset, line 392: self._events.clear()
ResetEvents(p) ==
    /\ pc[p] = "reset_events"
    /\ _events' = <<>>
    /\ pc' = [pc EXCEPT ![p] = "idle"]
    /\ frame' = [frame EXCEPT ![p] = NoFrame]
    /\ UNCHANGED <<storage_backend, _assignments, redis_assignment,
                   redis_events, log_file, now, out, first_assigned, clickVars>>

\* ------------------------------------------------- ClickTrackingService
\* the variant strings callers send
VariantNames == {"search_v1", "search_v2"}

\* ClickEvent.to_dict / SearchImpression.to_dict, as far as metrics read them
NewDoc(user_id, variant) ==
    [user_id |-> user_id, variant |-> variant, timestamp |-> now]

\* the filter dictionaries of get_ctr
MatchesFilter(d, user_id, variant, cutoff_time) ==
    /\ d.timestamp >= cutoff_time
    /\ Truthy(user_id) => d.user_id = user_id
    /\ Truthy(variant) => d.variant = variant

\* collection.count_documents(filter)
count_documents(collection, user_id, variant, cutoff_time) ==
    LET matching == {d \in BagToSet(collection) :
                       MatchesFilter(d, user_id, variant, cutoff_time)}
    IN BagCardinality([d \in matching |-> CopiesIn(d, collection)])

\* round(num / den, 4) as a count of ten-thousandths, ties to even
RoundHalfEven(num, den) ==
    LET q == (num * 10000) \div den
        r == (num * 10000) % den
    IN IF 2 * r < den THEN q
       ELSE IF 2 * r > den THEN q + 1
       ELSE IF q % 2 = 0 THEN q ELSE q + 1

\* get_ctr as it would be if it rounded to two decimals
RoundedCtr_TwoDecimals(clicks, impressions) ==
    IF impressions > 0
    THEN Quotient(((clicks * 100) \div impressions) * 100, 10000)
    ELSE Quotient(0, 10000)

\* round(clicks / impressions if impressions > 0 else 0.0, 4)
RoundedCtr(clicks, impressions) ==
    IF impressions > 0
    THEN Quotient(RoundHalfEven(clicks, impressions), 10000)
    ELSE Quotient(0, 10000)

\* ClickTrackingService.get_ctr
get_ctr(user_id, variant, days) ==
    IF ~db THEN [ctr |-> Quotient(0, 1), clicks |-> 0, impressions |-> 0]
    ELSE
    LET cutoff_time == now - days
        clicks == count_documents(clicks_collection, user_id, variant,
                                  cutoff_time)
        impressions == count_documents(impressions_collection, user_id,
                                       variant, cutoff_time)
        breakdown ==
            [v \in VariantNames |->
               LET variant_clicks ==
                       count_documents(clicks_collection, user_id, v,
                                       cutoff_time)
                   variant_impressions ==
                       count_documents(impressions_collection, user_id, v,
                                       cutoff_time)
               IN [ctr |-> RoundedCtr(variant_clicks, variant_impressions),
                   clicks |-> variant_clicks,
                   impressions |-> variant_impressions]]
    IN IF Truthy(variant)
       THEN [ctr |-> RoundedCtr(clicks, impressions), clicks |-> clicks,
             impressions |-> impressions, period_days |-> days]
       ELSE [ctr |-> RoundedCtr(clicks, impressions), clicks |-> clicks,
             impressions |-> impressions, period_days |-> days,
             by_variant |-> breakdown]

\* log_click as it would be without `if not self.db: return False`
CtLogClick_IgnoresDb(user_id, variant) ==
    /\ BagCardinality(clicks_collection) < MaxClicks
    /\ \/ /\ clicks_collection' =
               clicks_collection (+) SetToBag({NewDoc(user_id, variant)})
          /\ out' = [op |-> "ct_log_click", value |-> TRUE]
       \/ /\ UNCHANGED clicks_collection
          /\ out' = [op |-> "ct_log_click", value |-> FALSE]
    /\ UNCHANGED <<mgrVars, now, first_assigned, procVars, db,
                   impressions_collection>>

\* ClickTrackingService.log_click
CtLogClick(user_id, variant) ==
    /\ BagCardinality(clicks_collection) < MaxClicks
    /\ \/ /\ db
          /\ clicks_collection' =
               clicks_collection (+) SetToBag({NewDoc(user_id, variant)})
          /\ out' = [op |-> "ct_log_click", value |-> TRUE]
       \/ \* no database, or insert_one raised
          /\ UNCHANGED clicks_collection
          /\ out' = [op |-> "ct_log_click", value |-> FALSE]
    /\ UNCHANGED <<mgrVars, now, first_assigned, procVars, db,
                   impressions_collection>>

\* ClickTrackingService.log_impression
CtLogImpression(user_id, variant) ==
    /\ BagCardinality(impressions_collection) < MaxImpressions
    /\ \/ /\ db
          /\ impressions_collection' =
               impressions_collection (+) SetToBag({NewDoc(user_id, variant)})
          /\ out' = [op |-> "ct_log_impression", value |-> TRUE]
       \/ \* no database, or insert_one raised
          /\ UNCHANGED impressions_collection
          /\ out' = [op |-> "ct_log_impression", value |-> FALSE]
    /\ UNCHANGED <<mgrVars, now, first_assigned, procVars, db,
                   clicks_collection>>

\* ClickTrackingService.reset
CtReset ==
    /\ \/ /\ db
          /\ clicks_collection' = EmptyBag
          /\ impressions_collection' = EmptyBag
          /\ out' = [op |-> "ct_reset", value |-> TRUE]
       \/ \* the second delete_many raised
          /\ db
          /\ clicks_collection' = EmptyBag
          /\ UNCHANGED impressions_collection
          /\ out' = [op |-> "ct_reset", value |-> FALSE]
       \/ \* no database, or the first delete_many raised
          /\ UNCHANGED <<clicks_collection, impressions_collection>>
          /\ out' = [op |-> "ct_reset", value |-> FALSE]
    /\ UNCHANGED <<mgrVars, now, first_assigned, procVars, db>>

\* the instants of SpecClick: a day passes
Instants == {0, 1}

CtTick ==
    /\ now + 1 \in Instants
    /\ now' = now + 1
    /\ UNCHANGED <<mgrVars, out, first_assigned, procVars, clickVars>>

\* the arguments a caller may pass to get_ctr
VariantArgs == VariantNames \cup {NoArg}
DaysArgs == {0, 1}

\* ClickTrackingService.get_ctr, called by a client
GetCtr(user_id, variant, days) ==
    /\ \/ out' = [op |-> "get_ctr", failed |-> FALSE,
                  value |-> get_ctr(user_id, variant, days).ctr]
       \/ \* count_documents raised: the except branch answers 0.0
          /\ db
          /\ out' = [op |-> "get_ctr", failed |-> TRUE,
                     value |-> Quotient(0, 1)]
    /\ UNCHANGED <<mgrVars, now, first_assigned, procVars, clickVars>>

\* ------------------------------------- ClickTrackingService: statistics
\* the sequences over S of length at most n
SeqsUpTo(S, n) == UNION {[1..k -> S] : k \in 0..n}

\* sum(values)
RECURSIVE SumSeq(_)
SumSeq(values) ==
    IF values = <<>> THEN 0
    ELSE IF Len(values) = 1 THEN values[1]
    ELSE LET half == Len(values) \div 2
         IN SumSeq(SubSeq(values, 1, half))
            + SumSeq(SubSeq(values, half + 1, Len(values)))

\* min(values) and max(values) of a non-empty list
MinOf(values) ==
    CHOOSE x \in {values[i] : i \in 1..Len(values)} :
        \A i \in 1..Len(values) : x <= values[i]
MaxOf(values) ==
    CHOOSE x \in {values[i] : i \in 1..Len(values)} :
        \A i \in 1..Len(values) : x >= values[i]

\* sorted(values)
RECURSIVE Sorted(_)
Sorted(values) ==
    IF values = <<>> THEN <<>>
    ELSE LET m == MinOf(values)
             i == CHOOSE j \in 1..Len(values) : values[j] = m
         IN <<m>> \o Sorted(SubSeq(values, 1, i - 1)
                            \o SubSeq(values, i + 1, Len(values)))

\* round(num / den, 2) as a count of hundredths, ties to even
RoundHundredths(num, den) ==
    LET q == (num * 100) \div den
        r == (num * 100) % den
    IN IF 2 * r < den THEN q
       ELSE IF 2 * r > den THEN q + 1
       ELSE IF q % 2 = 0 THEN q ELSE q + 1

\* round(sum(values) / len(values), 2) of a non-empty list
RoundedMean(values) ==
    Quotient(RoundHundredths(SumSeq(values), Len(values)), 100)

\* the dictionary clicks_by_rank
ClicksByRank(ranks) ==
    [r \in {ranks[i] : i \in 1..Len(ranks)} |->
       Cardinality({i \in 1..Len(ranks) : ranks[i] = r})]

\* what get_rank_metrics answers without a database
RankMetricsNoDb == [avg_rank |-> Quotient(0, 1), clicks_by_rank |-> <<>>]

\* what get_rank_metrics answers when it finds no click
RankMetricsNoClicks ==
    [avg_rank |-> Quotient(0, 1), clicks_by_rank |-> <<>>, total_clicks |-> 0]

\* get_rank_metrics as it would be if it took the middle of the unsorted ranks
get_rank_metrics_MedianUnsorted(ranks) ==
    IF ranks = <<>> THEN RankMetricsNoClicks
    ELSE [avg_rank |-> RoundedMean(ranks),
          median_rank |-> ranks[(Len(ranks) \div 2) + 1],
          min_rank |-> MinOf(ranks),
          max_rank |-> MaxOf(ranks),
          clicks_by_rank |-> ClicksByRank(ranks),
          total_clicks |-> Len(ranks)]

\* ClickTrackingService.get_rank_metrics, from the ranks of the clicks that
\* clicks_collection.find(filter_dict) returned
get_rank_metrics(ranks) ==
    IF ranks = <<>> THEN RankMetricsNoClicks
    ELSE [avg_rank |-> RoundedMean(ranks),
          median_rank |-> Sorted(ranks)[(Len(ranks) \div 2) + 1],
          min_rank |-> MinOf(ranks),
          max_rank |-> MaxOf(ranks),
          clicks_by_rank |-> ClicksByRank(ranks),
          total_clicks |-> Len(ranks)]

\* what get_response_time_metrics answers without a database, or when find
\* raised
ResponseTimeNoDb == [avg_response_time_ms |-> Quotient(0, 1), count |-> 0]

\* what get_response_time_metrics answers when it finds no impression
ResponseTimeNoImpressions ==
    [avg_response_time_ms |-> Quotient(0, 1), min_response_time_ms |-> 0,
     max_response_time_ms |-> 0, count |-> 0]

\* ClickTrackingService.get_response_time_metrics, from the response times of
\* the impressions that impressions_collection.find(filter_dict) returned
get_response_time_metrics(times) ==
    IF times = <<>> THEN ResponseTimeNoImpressions
    ELSE [avg_response_time_ms |-> RoundedMean(times),
          min_response_time_ms |-> MinOf(times),
          max_response_time_ms |-> MaxOf(times),
          p95_response_time_ms |->
              Sorted(times)[((Len(times) * 95) \div 100) + 1],
          count |-> Len(times)]

\* q1 < q2 for two floats
Less(q1, q2) == q1.num * q2.den < q2.num * q1.den

\* the entry of one variant in get_variant_comparison, from the ranks of its
\* clicks and the response times of its impressions in the window
VariantResult(ranks, times) ==
    [clicks |-> Len(ranks),
     impressions |-> Len(times),
     ctr |-> RoundedCtr(Len(ranks), Len(times)),
     avg_rank_clicked |->
         IF ranks # <<>> THEN RoundedMean(ranks) ELSE Quotient(0, 100),
     avg_response_time_ms |->
         IF times # <<>> THEN RoundedMean(times) ELSE Quotient(0, 100)]

\* the winner as it would be if the last of two equal entries won
WinnerByCtr_LastOnTies(results) ==
    IF Less(results["search_v2"].ctr, results["search_v1"].ctr)
    THEN "search_v1" ELSE "search_v2"

\* max(results.items(), key=lambda x: x[1]['ctr'])[0]: the first entry,
\* search_v1, unless the ctr of search_v2 is greater
WinnerByCtr(results) ==
    IF Less(results["search_v1"].ctr, results["search_v2"].ctr)
    THEN "search_v2" ELSE "search_v1"

\* ClickTrackingService.get_variant_comparison, from the clicks and impressions
\* found for each variant
get_variant_comparison(found, days) ==
    LET results == [v \in VariantNames |->
                      VariantResult(found[v].ranks, found[v].times)]
    IN [period_days |-> days, variants |-> results,
        winner_by_ctr |-> WinnerByCtr(results)]

\* the ranks and response times the stored events carry
RankValues == {0, 1, 2}
TimeValues == {10, 25}

\* the click ranks and impression response times find() may return
RankSamples == SeqsUpTo(RankValues, MaxSample)
TimeSamples == SeqsUpTo(TimeValues, MaxSample)

\* the windows compared: none, few, and 107 and 108 impressions, whose rates
\* for one click differ by less than a ten-thousandth
CompareRanks == {<<>>, <<0>>}
CompareTimes ==
    {<<>>, <<10>>, [i \in 1..107 |-> 10], [i \in 1..108 |-> 10]}

\* ClickTrackingService.get_rank_metrics, called by a client
GetRankMetrics(ranks) ==
    /\ \/ /\ ~db
          /\ out' = [op |-> "get_rank_metrics", answered |-> FALSE,
                     found |-> <<>>, value |-> RankMetricsNoDb]
       \/ /\ db
          /\ out' = [op |-> "get_rank_metrics", answered |-> TRUE,
                     found |-> ranks, value |-> get_rank_metrics(ranks)]
       \/ \* find raised
          /\ db
          /\ out' = [op |-> "get_rank_metrics", answered |-> FALSE,
                     found |-> <<>>, value |-> RankMetricsNoClicks]
    /\ UNCHANGED <<mgrVars, now, first_assigned, procVars, clickVars>>

\* ClickTrackingService.get_response_time_metrics, called by a client
GetResponseTimeMetrics(times) ==
    /\ \/ /\ ~db
          /\ out' = [op |-> "get_response_time_metrics", answered |-> FALSE,
                     found |-> <<>>, value |-> ResponseTimeNoDb]
       \/ /\ db
          /\ out' = [op |-> "get_response_time_metrics", answered |-> TRUE,
                     found |-> times,
                     value |-> get_response_time_metrics(times)]
       \/ \* find raised
          /\ db
          /\ out' = [op |-> "get_response_time_metrics", answered |-> FALSE,
                     found |-> <<>>, value |-> ResponseTimeNoDb]
    /\ UNCHANGED <<mgrVars, now, first_assigned, procVars, clickVars>>

\* ClickTrackingService.get_variant_comparison, called by a client
GetVariantComparison(found, days) ==
    /\ \/ /\ ~db
          /\ out' = [op |-> "get_variant_comparison", answered |-> FALSE,
                     found |-> found,
                     value |-> [error |-> "Database unavailable"]]
       \/ /\ db
          /\ out' = [op |-> "get_variant_comparison", answered |-> TRUE,
                     found |-> found,
                     value |-> get_variant_comparison(found, days)]
       \/ \* a query raised
          /\ db
          /\ out' = [op |-> "get_variant_comparison", answered |-> FALSE,
                     found |-> found, value |-> [error |-> "raised"]]
    /\ UNCHANGED <<mgrVars, now, first_assigned, procVars, clickVars>>

\* ------------------------------------------------- evaluation order
\* Python evaluates an argument once, before the call: Bind gives an operator
\* the values of its arguments. A list built element by element is given as
\* its value by `\o <<>>`.
\* the element of a one-element set
The(S) == CHOOSE r \in S : TRUE

\* F applied to the values of its arguments, each computed once
Bind(v, F(_)) == The({F(x) : x \in {v}})
Bind2(v, w, F(_, _)) == The({F(x, y) : x \in {v}, y \in {w}})
Bind3(u, v, w, F(_, _, _)) == The({F(x, y, z) : x \in {u}, y \in {v}, z \in {w}})

\* ------------------------------------------------------ Python floats
\* Natural numbers of any size, as sequences of limbs below LimbBase, least
\* significant limb first and no leading zero limb; <<>> is zero.
LimbBits == 15
LimbBase == 2^15

\* a without its most significant zero limbs
BigTrimVal(a) ==
    Bind({i \in 1..Len(a) : a[i] # 0},
         LAMBDA nz : IF nz = {} THEN <<>>
                     ELSE SubSeq(a, 1, CHOOSE i \in nz : \A j \in nz : j <= i))
BigTrim(a) == Bind(a, BigTrimVal)

\* the natural number n
RECURSIVE BigOf(_)
BigOf(n) == IF n = 0 THEN <<>> ELSE <<n % LimbBase>> \o BigOf(n \div LimbBase)

\* a without its first limb
Rest(a) == IF a = <<>> THEN <<>> ELSE Tail(a)

\* the first limb of a
Low(a) == IF a = <<>> THEN 0 ELSE Head(a)

RECURSIVE AddLimbs(_, _, _)
AddLimbsVal(a, b, carry) ==
    IF a = <<>> /\ b = <<>>
    THEN (IF carry = 0 THEN <<>> ELSE <<carry>>)
    ELSE Bind(Low(a) + Low(b) + carry,
              LAMBDA x : <<x % LimbBase>>
                         \o AddLimbs(Rest(a), Rest(b), x \div LimbBase))
AddLimbs(a, b, carry) == Bind3(a, b, carry, AddLimbsVal)

\* a + b
BigAdd(a, b) == AddLimbs(a, b, 0)

RECURSIVE SubLimbs(_, _, _)
SubLimbsVal(a, b, borrow) ==
    IF a = <<>> THEN <<>>
    ELSE Bind(Head(a) - Low(b) - borrow,
              LAMBDA x : <<(x + LimbBase) % LimbBase>>
                         \o SubLimbs(Tail(a), Rest(b), IF x < 0 THEN 1 ELSE 0))
SubLimbs(a, b, borrow) == Bind3(a, b, borrow, SubLimbsVal)

\* a - b, for a >= b
BigSub(a, b) == BigTrim(SubLimbs(a, b, 0))

\* -1, 0 or 1 as a < b, a = b or a > b
BigCmpVal(a, b) ==
    IF Len(a) # Len(b) THEN (IF Len(a) < Len(b) THEN 0 - 1 ELSE 1)
    ELSE Bind({i \in 1..Len(a) : a[i] # b[i]},
              LAMBDA diff :
                  IF diff = {} THEN 0
                  ELSE Bind(CHOOSE i \in diff : \A j \in diff : j <= i,
                            LAMBDA top : IF a[top] < b[top] THEN 0 - 1 ELSE 1))
BigCmp(a, b) == Bind2(a, b, BigCmpVal)

RECURSIVE MulLimbs(_, _, _)
MulLimbsVal(a, k, carry) ==
    IF a = <<>> THEN (IF carry = 0 THEN <<>> ELSE <<carry>>)
    ELSE Bind(Head(a) * k + carry,
              LAMBDA x : <<x % LimbBase>> \o MulLimbs(Tail(a), k, x \div LimbBase))
MulLimbs(a, k, carry) == Bind3(a, k, carry, MulLimbsVal)

\* a * k, for a limb k
BigMulSmall(a, k) == BigTrim(MulLimbs(a, k, 0))

\* a * b
RECURSIVE BigMul(_, _)
BigMulVal(a, b) ==
    IF a = <<>> \/ b = <<>> THEN <<>>
    ELSE BigTrim(BigAdd(BigMulSmall(a, Head(b)),
                        IF Tail(b) = <<>> THEN <<>>
                        ELSE Bind(BigMul(a, Tail(b)),
                                  LAMBDA rest : IF rest = <<>> THEN <<>>
                                                ELSE <<0>> \o rest)))
BigMul(a, b) == Bind2(a, b, BigMulVal)

\* the number of bits of a
BitLenVal(a) ==
    IF a = <<>> THEN 0
    ELSE LimbBits * (Len(a) - 1)
         + (CHOOSE n \in 1..LimbBits :
               2^(n - 1) <= a[Len(a)] /\ a[Len(a)] < 2^n)
BitLen(a) == Bind(a, BitLenVal)

\* a * 2^n
ShiftLeftVal(a, n) ==
    IF a = <<>> THEN <<>>
    ELSE [i \in 1..(n \div LimbBits) |-> 0]
         \o BigMulSmall(a, 2^(n % LimbBits))
ShiftLeft(a, n) == Bind2(a, n, ShiftLeftVal)

\* a \div 2^n
ShiftRightVal(a, n) ==
    Bind2(n % LimbBits, SubSeq(a, n \div LimbBits + 1, Len(a)),
          LAMBDA r, c :
              BigTrim([i \in 1..Len(c) |->
                         (c[i] \div 2^r)
                         + ((IF i < Len(c) THEN c[i + 1] ELSE 0) % 2^r)
                           * 2^(LimbBits - r)]))
ShiftRight(a, n) == Bind2(a, n, ShiftRightVal)

\* a % 2^n
LowBitsVal(a, n) == BigSub(a, ShiftLeft(ShiftRight(a, n), n))
LowBits(a, n) == Bind2(a, n, LowBitsVal)

\* the number of zero bits below the lowest set bit of a # 0
TrailingZerosVal(a) ==
    Bind(CHOOSE i \in 1..Len(a) : a[i] # 0 /\ \A j \in 1..(i - 1) : a[j] = 0,
         LAMBDA k : LimbBits * (k - 1)
                    + (CHOOSE n \in 0..(LimbBits - 1) :
                          a[k] % 2^n = 0 /\ (a[k] \div 2^n) % 2 = 1))
TrailingZeros(a) == Bind(a, TrailingZerosVal)

\* long division of the limbs msb (most significant first) by a limb d
RECURSIVE DivLimbs(_, _, _)
DivLimbsVal(msb, d, r) ==
    IF msb = <<>> THEN [quot |-> <<>>, rem |-> r]
    ELSE Bind(r * LimbBase + Head(msb),
              LAMBDA cur :
                  Bind(DivLimbs(Tail(msb), d, cur % d),
                       LAMBDA rest : [quot |-> rest.quot \o <<cur \div d>>,
                                      rem |-> rest.rem]))
DivLimbs(msb, d, r) == Bind3(msb, d, r, DivLimbsVal)

\* a \div d and a % d, for a limb d
BigDivSmallVal(a, d) ==
    Bind(DivLimbs([i \in 1..Len(a) |-> a[Len(a) + 1 - i]], d, 0),
         LAMBDA res : [quot |-> BigTrim(res.quot), rem |-> res.rem])
BigDivSmall(a, d) == Bind2(a, d, BigDivSmallVal)

\* A Python float (IEEE 754 binary64, away from overflow and underflow): zero,
\* not-a-number, or sign * mant * 2^exp with mant odd and below 2^53.
MantBits == 53
FZero == [sign |-> 1, mant |-> <<>>, exp |-> 0]
NaN == [nan |-> TRUE]
IsNaN(x) == x = NaN

\* whether m \div 2^n = q rounds up to q + 1: the n bits dropped are more
\* than half, or half with q odd (ties to even)
RoundsUp(m, n, q) ==
    /\ n > 0
    /\ Bind(BigCmp(LowBits(m, n), ShiftLeft(<<1>>, n - 1)),
            LAMBDA c : c = 1 \/ (c = 0 /\ q[1] % 2 = 1))

\* sign * q * 2^e with the mantissa made odd
OddMant(sign, q, e) ==
    Bind(TrailingZeros(q),
         LAMBDA tz : [sign |-> sign, mant |-> ShiftRight(q, tz), exp |-> e + tz])

\* the float nearest to sign * m * 2^e, ties to even
MakeFloatVal(sign, m, e) ==
    IF m = <<>> THEN FZero
    ELSE Bind(IF BitLen(m) > MantBits THEN BitLen(m) - MantBits ELSE 0,
              LAMBDA n :
                  Bind(ShiftRight(m, n),
                       LAMBDA q :
                           Bind(IF RoundsUp(m, n, q) THEN BigAdd(q, <<1>>) ELSE q,
                                LAMBDA q2 : OddMant(sign, q2, e + n))))
MakeFloat(sign, m, e) == Bind3(sign, m, e, MakeFloatVal)

\* float(n) for an integer n
FloatOfInt(n) ==
    IF n < 0 THEN MakeFloat(0 - 1, BigOf(0 - n), 0) ELSE MakeFloat(1, BigOf(n), 0)

\* the float nearest to sign * 2^e * the quotient d.quot with remainder d.rem
\* of a division carried far beyond the 53 bits kept: a remainder makes the
\* quotient inexact, which one more low bit records for the rounding
OfQuotient(sign, d, e) ==
    IF d.rem = 0 THEN MakeFloat(sign, d.quot, e)
    ELSE MakeFloat(sign, BigAdd(ShiftLeft(d.quot, 1), <<1>>), e - 1)

\* the float a decimal literal sign * p / q denotes (p, q limbs, q > 0)
Literal(sign, p, q) ==
    Bind3(sign, BigDivSmall(ShiftLeft(BigOf(p), 8 * LimbBits), q),
          0 - 8 * LimbBits, OfQuotient)

\* -a
FNegVal(a) == IF IsNaN(a) \/ a = FZero THEN a ELSE [a EXCEPT !.sign = 0 - a.sign]
FNeg(a) == Bind(a, FNegVal)

\* a * b
FMulVal(a, b) ==
    IF IsNaN(a) \/ IsNaN(b) THEN NaN
    ELSE MakeFloat(a.sign * b.sign, BigMul(a.mant, b.mant), a.exp + b.exp)
FMul(a, b) == Bind2(a, b, FMulVal)

\* sign_a * ma * 2^e + sign_b * mb * 2^e
AddAligned(a, b, ma, mb, e) ==
    IF a.sign = b.sign THEN MakeFloat(a.sign, BigAdd(ma, mb), e)
    ELSE Bind(BigCmp(ma, mb),
              LAMBDA c : IF c = 0 THEN FZero
                         ELSE IF c = 1 THEN MakeFloat(a.sign, BigSub(ma, mb), e)
                         ELSE MakeFloat(b.sign, BigSub(mb, ma), e))

\* a + b
FAddVal(a, b) ==
    IF IsNaN(a) \/ IsNaN(b) THEN NaN
    ELSE IF a = FZero THEN b
    ELSE IF b = FZero THEN a
    ELSE Bind(IF a.exp < b.exp THEN a.exp ELSE b.exp,
              LAMBDA e :
                  Bind2(ShiftLeft(a.mant, a.exp - e), ShiftLeft(b.mant, b.exp - e),
                        LAMBDA ma, mb : AddAligned(a, b, ma, mb, e)))
FAdd(a, b) == Bind2(a, b, FAddVal)

\* a / b for a divisor whose mantissa is below 2^15; x / 0 is only 0 / 0
\* here, which is not a number
FDivVal(a, b) ==
    IF IsNaN(a) \/ IsNaN(b) \/ b = FZero THEN NaN
    ELSE IF a = FZero THEN FZero
    ELSE Bind3(a.sign * b.sign,
               BigDivSmall(ShiftLeft(a.mant, 8 * LimbBits), b.mant[1]),
               a.exp - b.exp - 8 * LimbBits, OfQuotient)
FDiv(a, b) == Bind2(a, b, FDivVal)

\* sqrt(a) for a float that is the square of a float with a mantissa
\* below 2^15
FSqrtVal(a) ==
    IF IsNaN(a) THEN NaN
    ELSE IF a = FZero THEN FZero
    ELSE [sign |-> 1,
          mant |-> <<CHOOSE r \in 1..a.mant[1] : r * r = a.mant[1]>>,
          exp |-> a.exp \div 2]
FSqrt(a) == Bind(a, FSqrtVal)

\* a < b
FLessVal(a, b) ==
    /\ ~IsNaN(a)
    /\ ~IsNaN(b)
    /\ Bind(FAdd(a, FNeg(b)), LAMBDA d : d # FZero /\ d.sign = 0 - 1)
FLess(a, b) == Bind2(a, b, FLessVal)


\* ------------------------------------------------------------ ranking
\* A str is the sequence of its characters; NoText is None where a str is
\* optional, NoFloat is None where a float is optional.
NoText == <<NoArg>>
NoFloat == None

\* `if not text`
HasText(text) == text # NoText /\ text # <<>>

\* str.lower(), for the capitals the texts here use
UpperToLower == [R |-> "r", E |-> "e", D |-> "d", S |-> "s"]
LowerChar(c) == IF c \in DOMAIN UpperToLower THEN UpperToLower[c] ELSE c
Lower(s) == [i \in 1..Len(s) |-> LowerChar(s[i])]

\* str.strip()
Strip(s) ==
    Bind({i \in 1..Len(s) : s[i] # " "},
         LAMBDA kept :
             IF kept = {} THEN <<>>
             ELSE SubSeq(s, CHOOSE i \in kept : \A j \in kept : i <= j,
                            CHOOSE i \in kept : \A j \in kept : j <= i))

\* the characters the pattern [a-z0-9] matches
Alnum == {"a", "b", "d", "e", "h", "l", "o", "r", "s", "t", "u",
          "0", "1", "2"}

\* re.findall(r"[a-z0-9]+", text.lower())
_tokenize(text) ==
    IF ~HasText(text) THEN <<>>
    ELSE Bind(Lower(text) \o <<>>,
              LAMBDA s :
                  Bind({i \in 1..Len(s) :
                          s[i] \in Alnum /\ (i = 1 \/ s[i - 1] \notin Alnum)},
                       LAMBDA starts :
                           LET EndOf(i) ==
                                   CHOOSE j \in i..Len(s) :
                                       /\ \A k \in i..j : s[k] \in Alnum
                                       /\ (j = Len(s) \/ s[j + 1] \notin Alnum)
                               StartNo(n) ==
                                   CHOOSE i \in starts :
                                       Cardinality({j \in starts : j < i}) = n - 1
                           IN [n \in 1..Cardinality(starts) |->
                                 SubSeq(s, StartNo(n), EndOf(StartNo(n)))]))

\* the bag-of-words frequency dict of a text
_bow(text) ==
    Bind(_tokenize(text) \o <<>>,
         LAMBDA tokens :
             [t \in {tokens[i] : i \in 1..Len(tokens)} |->
                Cardinality({i \in 1..Len(tokens) : tokens[i] = t})])

\* the sum of f over the finite set S
RECURSIVE SumOver(_, _)
SumOver(f, S) ==
    IF S = {} THEN 0
    ELSE Bind(CHOOSE x \in S : TRUE, LAMBDA k : f[k] + SumOver(f, S \ {k}))

\* math.sqrt of a perfect square (the texts drawn here have frequency dicts
\* whose sum of squares is one)
sqrt(n) == CHOOSE r \in 0..n : r * r = n

\* the dot product of two frequency dicts
Dot(freq_a, freq_b) ==
    Bind(DOMAIN freq_a \cap DOMAIN freq_b,
         LAMBDA shared :
             SumOver([k \in shared |-> freq_a[k] * freq_b[k]], shared))

\* _cosine_sim: dot / (na * nb), the norms being whole numbers here
_cosine_sim(freq_a, freq_b) ==
    IF DOMAIN freq_a = {} \/ DOMAIN freq_b = {} THEN FZero
    ELSE Bind3(Dot(freq_a, freq_b), sqrt(Dot(freq_a, freq_a)),
               sqrt(Dot(freq_b, freq_b)),
               LAMBDA dot, na, nb :
                   IF na = 0 \/ nb = 0 THEN FZero ELSE Literal(1, dot, na * nb))

\* text_similarity
text_similarity(query_text, title) ==
    IF ~HasText(query_text) \/ ~HasText(title) THEN FZero
    ELSE Bind2(_bow(query_text), _bow(title), _cosine_sim)

FOne == FloatOfInt(1)

\* exact_match_boost
exact_match_boost_CaseSensitive(a, b) ==
    IF ~HasText(a) \/ ~HasText(b) THEN FZero
    ELSE IF Strip(a) = Strip(b) THEN FOne ELSE FZero
exact_match_boost(a, b) ==
    IF ~HasText(a) \/ ~HasText(b) THEN FZero
    ELSE IF Lower(Strip(a)) = Lower(Strip(b)) THEN FOne ELSE FZero

\* the default weights of compute_final_score
DefaultWeights ==
    [vector |-> Literal(1, 1, 2), color |-> Literal(1, 1, 5),
     category |-> Literal(1, 1, 5), text |-> Literal(1, 1, 10)]

\* weights=None, and the empty dict, which `if weights` treats alike
NoWeights == <<>>

\* w.update(weights)
UpdatedWeights(weights) ==
    [k \in DOMAIN DefaultWeights |->
       IF k \in DOMAIN weights THEN weights[k] ELSE DefaultWeights[k]]

\* min(a, b) and max(a, b) of Python: b if it compares below (above) a
PyMin_NoCap(a, b) == b
PyMin(a, b) == Bind2(a, b, LAMBDA x, y : IF FLess(y, x) THEN y ELSE x)
PyMax(a, b) == Bind2(a, b, LAMBDA x, y : IF FLess(x, y) THEN y ELSE x)

\* the weighted sum before clamping
WeightedSum(w, v, color_match, category_match, text_sim) ==
    FAdd(FAdd(FAdd(FMul(w.vector, v), FMul(w.color, color_match)),
              FMul(w.category, category_match)),
         FMul(w.text, text_sim))

\* compute_final_score
compute_final_score(vector_sim, color_match, category_match, text_sim, weights) ==
    Bind2(UpdatedWeights(weights),
          IF vector_sim # NoFloat THEN vector_sim ELSE FZero,
          LAMBDA w, v :
              Bind(WeightedSum(w, v, color_match, category_match, text_sim),
                   LAMBDA score : PyMax(FZero, PyMin(FOne, score))))

\* the key order of scored.sort(key=lambda x: x[0], reverse=True): the place
\* of entry i is behind every entry with a greater score and every earlier
\* entry with the same score
PlaceOf_TiesReversed(scores, i) ==
    1 + Cardinality({j \in 1..Len(scores) : FLess(scores[i], scores[j])})
      + Cardinality({j \in (i + 1)..Len(scores) :
                       ~FLess(scores[i], scores[j])
                       /\ ~FLess(scores[j], scores[i])})
PlaceOf(scores, i) ==
    1 + Cardinality({j \in 1..Len(scores) : FLess(scores[i], scores[j])})
      + Cardinality({j \in 1..(i - 1) :
                       ~FLess(scores[i], scores[j])
                       /\ ~FLess(scores[j], scores[i])})

\* the components rerank_results computes for one candidate, as the dict it
\* attaches under "debug_scores" (float() of a float is that float)
debug_scores(rd, query_text, query_color, query_category, weights) ==
    Bind3(exact_match_boost(query_color, rd.color),
          exact_match_boost(query_category, rd.category),
          text_similarity(query_text, rd.title),
          LAMBDA color_match, category_match, text_sim :
              [vector_score |-> IF rd.similarity # NoFloat THEN rd.similarity
                                ELSE FZero,
               color_score |-> color_match,
               category_score |-> category_match,
               text_score |-> text_sim,
               final_score |-> compute_final_score(rd.similarity, color_match,
                                   category_match, text_sim, weights)])

\* the dict of one candidate after the loop body: rd["final_score"] = score
\* and, with add_debug_scores, rd["debug_scores"] = {...}
ScoredDict_ScoreFromBreakdown(rd, breakdown, add_debug_scores) ==
    [f \in DOMAIN rd \cup {"final_score"}
           \cup (IF add_debug_scores THEN {"debug_scores"} ELSE {}) |->
       IF f = "final_score"
       THEN (IF add_debug_scores THEN breakdown.vector_score
             ELSE breakdown.final_score)
       ELSE IF f = "debug_scores" /\ add_debug_scores THEN breakdown
       ELSE rd[f]]
ScoredDict(rd, breakdown, add_debug_scores) ==
    [f \in DOMAIN rd \cup {"final_score"}
           \cup (IF add_debug_scores THEN {"debug_scores"} ELSE {}) |->
       IF f = "final_score" THEN breakdown.final_score
       ELSE IF f = "debug_scores" /\ add_debug_scores THEN breakdown
       ELSE rd[f]]

\* rerank_results (add_score_field=True)
rerank_results(results, query_text, query_color, query_category, weights, add_debug_scores) ==
    Bind([i \in 1..Len(results) |->
            debug_scores(results[i], query_text, query_color, query_category,
                         weights)] \o <<>>,
         LAMBDA parts :
             Bind([i \in 1..Len(results) |->
                     PlaceOf([j \in 1..Len(results) |-> parts[j].final_score],
                             i)] \o <<>>,
                  LAMBDA place :
                      [k \in 1..Len(results) |->
                         Bind(CHOOSE i \in 1..Len(results) : place[i] = k,
                              LAMBDA i :
                                  ScoredDict(results[i], parts[i],
                                             add_debug_scores))]))

\* the values drawn for the components of a score
VectorSims ==
    {NoFloat, NaN, Literal(0 - 1, 1, 5), FZero, Literal(1, 3, 10), FOne,
     Literal(1, 3, 2)}
MatchValues == {FZero, FOne}
TextSims == {FZero, Literal(1, 3, 10), Literal(1, 7, 10), FOne}

\* the weight overrides drawn
WeightChoices ==
    {NoWeights,
     [vector |-> FOne],
     [vector |-> Literal(1, 7, 10), text |-> Literal(1, 3, 10)],
     [color |-> Literal(0 - 1, 1, 2)],
     [text |-> FloatOfInt(2), category |-> FZero]}

\* the products of the catalogue, and the similarities the retriever gives
Products ==
    {[product_id |-> "p1", title |-> <<"R", "e", "d">>,
      color |-> <<"r", "e", "d">>, category |-> <<"h", "a", "t">>],
     [product_id |-> "p2", title |-> <<"h", "a", "t">>,
      color |-> <<"b", "l", "u", "e">>, category |-> <<"h", "a", "t">>],
     [product_id |-> "p3", title |-> NoText,
      color |-> <<" ", "R", "E", "D">>, category |-> NoText]}
Similarities == {NoFloat, Literal(1, 4, 5)}
Candidates ==
    {[product_id |-> p.product_id, title |-> p.title, color |-> p.color,
      category |-> p.category, similarity |-> s] :
        p \in Products, s \in Similarities}

\* the queries drawn
QueryTexts == {NoText, <<"r", "e", "d", " ", "r", "e", "d">>}
QueryColors == {NoText, <<"R", "e", "d", " ">>}
QueryCategories == {NoText, <<"h", "a", "t">>}

\* the calls of the ranking module a caller may make
ScoreCalls ==
    [op : {"call"}, fn : {"compute_final_score"}, vector_sim : VectorSims,
     color_match : MatchValues, category_match : MatchValues,
     text_sim : TextSims, weights : WeightChoices]
RerankCalls ==
    [op : {"call"}, fn : {"rerank_results"},
     results : SeqsUpTo(Candidates, MaxCandidates),
     query_text : QueryTexts, query_color : QueryColors,
     query_category : QueryCategories, weights : {NoWeights},
     add_debug_scores : {FALSE}]

\* the calls that ask for the breakdown, over the shorter lists
DebugCalls ==
    [op : {"call"}, fn : {"rerank_results"},
     results : SeqsUpTo(Candidates, MaxCandidates - 1),
     query_text : QueryTexts, query_color : QueryColors,
     query_category : QueryCategories, weights : {NoWeights},
     add_debug_scores : {TRUE}]

\* two candidates that differ in colour, under a query that names the colour
\* of the first product: the similarities drawn lie 0.1, 0.4 (0.7 - 0.3 is
\* below 0.4 as binary64 and as real numbers) and 0.55 apart
ColourSims ==
    {Literal(1, 3, 10), Literal(1, 7, 10), Literal(1, 3, 4), Literal(1, 17, 20)}
ColourCalls ==
    {c \in [op : {"call"}, fn : {"rerank_results"},
            results : [1..2 -> {x \in Candidates : x.product_id \in {"p1", "p2"}}
                                \cup
                                {[product_id |-> p.product_id, title |-> p.title,
                                  color |-> p.color, category |-> p.category,
                                  similarity |-> s] :
                                    p \in {q \in Products :
                                              q.product_id \in {"p1", "p2"}},
                                    s \in ColourSims}],
            query_text : {NoText}, query_color : QueryColors \ {NoText},
            query_category : QueryCategories, weights : {NoWeights},
            add_debug_scores : {FALSE}] :
        c.results[1].product_id # c.results[2].product_id}

\* compute_final_score, called
ComputeFinalScore ==
    /\ out.op = "call"
    /\ out.fn = "compute_final_score"
    /\ out' = [op |-> "compute_final_score", args |-> out,
               value |-> compute_final_score(out.vector_sim, out.color_match,
                             out.category_match, out.text_sim, out.weights)]
    /\ UNCHANGED <<mgrVars, now, first_assigned, procVars, clickVars>>

\* rerank_results, called
RerankResults ==
    /\ out.op = "call"
    /\ out.fn = "rerank_results"
    /\ out' = [op |-> "rerank_results", args |-> out,
               value |-> rerank_results(out.results, out.query_text,
                             out.query_color, out.query_category,
                             out.weights, out.add_debug_scores)]
    /\ UNCHANGED <<mgrVars, now, first_assigned, procVars, clickVars>>

\* ------------------------------------------- rerank_results, by statement
\* Callers that pass the same list to rerank_results.  out holds the list as
\* the callers hold it: of dicts, which _result_to_dict returns as they are,
\* or of SearchResult-like objects, of which it builds a new dict per call.
\* frame[p].scored is the list `scored` of call p, whose entries refer to a
\* dict of the shared list by its index or hold the call's own dict.
SharedKinds == {"dict", "object"}
SharedLists ==
    {results \in SeqsUpTo({x \in Candidates : x.similarity # NoFloat}, 2) :
        results # <<>>}

\* _result_to_dict: the dict the loop body works on
_result_to_dict(kind, result) ==
    IF kind = "dict" THEN result
    ELSE [f \in {"product_id", "title", "color", "category", "similarity"} |->
            result[f]]

\* rerank_results is entered (query_color given, the other arguments default)
RerankBegin(p, query_color) ==
    /\ pc[p] = "idle"
    /\ out.op = "candidates"
    /\ frame' = [frame EXCEPT ![p] = [op |-> "rerank_results",
                                      query_color |-> query_color,
                                      scored |-> <<>>]]
    /\ pc' = [pc EXCEPT ![p] = "rerank_loop"]
    /\ UNCHANGED <<mgrVars, now, out, first_assigned, clickVars>>

\* one pass of `for res in results`: rd["final_score"] = score is a write to
\* the caller's dict when res is a dict
RerankLoop(p) ==
    /\ pc[p] = "rerank_loop"
    /\ Len(frame[p].scored) < Len(out.results)
    /\ \E i \in {Len(frame[p].scored) + 1} :
       \E rd \in {_result_to_dict(out.kind, out.results[i])} :
       \E parts \in {debug_scores(rd, NoText, frame[p].query_color, NoText,
                                  NoWeights)} :
       \E scored_rd \in {ScoredDict(rd, parts, FALSE)} :
           IF out.kind = "dict"
           THEN /\ out' = [out EXCEPT !.results[i] = scored_rd]
                /\ frame' = [frame EXCEPT ![p].scored =
                                Append(@, [score |-> parts.final_score,
                                           rd |-> i])]
           ELSE /\ out' = out
                /\ frame' = [frame EXCEPT ![p].scored =
                                Append(@, [score |-> parts.final_score,
                                           rd |-> scored_rd])]
    /\ UNCHANGED <<mgrVars, now, first_assigned, pc, clickVars>>

\* scored.sort(...) and `return [rd for _, rd in scored]`: the caller gets
\* the dicts as they are at the return
RerankReturn(p) ==
    /\ pc[p] = "rerank_loop"
    /\ Len(frame[p].scored) = Len(out.results)
    /\ \E scored \in {frame[p].scored} :
       \E scores \in {[i \in 1..Len(scored) |-> scored[i].score] \o <<>>} :
       \E place \in {[i \in 1..Len(scored) |-> PlaceOf(scores, i)] \o <<>>} :
           frame' = [frame EXCEPT ![p] =
                        [op |-> "rerank_results",
                         query_color |-> frame[p].query_color,
                         value |->
                             [k \in 1..Len(scored) |->
                                \* the entry sorted to place k
                                IF out.kind = "dict"
                                THEN out.results[
                                         scored[CHOOSE i \in 1..Len(scored) :
                                                    place[i] = k].rd]
                                ELSE scored[CHOOSE i \in 1..Len(scored) :
                                                place[i] = k].rd]]]
    /\ pc' = [pc EXCEPT ![p] = "rerank_returned"]
    /\ UNCHANGED <<mgrVars, now, out, first_assigned, clickVars>>

\* ----------------------------------------------------- search service
\* The index as near_vector ranks it for the query vector: its objects,
\* nearest first, each with its distance.
Distances == {Literal(1, 1, 5), Literal(1, 1, 4)}
Indexes ==
    {index \in UNION {[1..n -> [properties : Products, distance : Distances]] :
                        n \in 0..Cardinality(Products)} :
        \A i, j \in 1..Len(index) :
            i < j => /\ index[i].properties # index[j].properties
                     /\ ~FLess(index[j].distance, index[i].distance)}

\* s[:n] for n >= 0
Take(s, n) == SubSeq(s, 1, IF n < Len(s) THEN n ELSE Len(s))

\* the words Weaviate indexes of a text property, and looks up for a filter
WordsOf(text) ==
    Bind(_tokenize(text) \o <<>>,
         LAMBDA tokens : {tokens[i] : i \in 1..Len(tokens)})

\* WeaviateClient.search_by_vector: the nearest `limit` objects that pass
\* Filter.by_property(k).equal(filters[k]) for every filter, with
\* similarity = 1 - distance. The properties are TEXT with the default
\* tokenization, under which equal holds when the property has the words of
\* the filter, whatever their case.
weaviate_search_by_vector(index, limit, filters) ==
    LET Matches(o) ==
            \A k \in DOMAIN filters :
                WordsOf(filters[k]) \subseteq WordsOf(o.properties[k])
    IN Bind(Take(SelectSeq(index, Matches), limit),
            LAMBDA objects :
                [i \in 1..Len(objects) |->
                   [properties |-> objects[i].properties,
                    distance |-> objects[i].distance,
                    similarity |-> FAdd(FOne, FNeg(objects[i].distance))]]
                \o <<>>)

\* the filters dict ProductSearchService.search_by_vector builds
FiltersOf(category_filter, color_filter) ==
    [k \in {f \in {"category", "color"} :
              HasText(IF f = "category" THEN category_filter ELSE color_filter)}
       |-> IF k = "category" THEN category_filter ELSE color_filter]

\* SearchResult(product_data, similarity, distance)
SearchResult(product_data, similarity, distance) ==
    [product_id |-> product_data.product_id, title |-> product_data.title,
     color |-> product_data.color, category |-> product_data.category,
     similarity |-> similarity, distance |-> distance]

\* ProductSearchService.search_by_vector over what Weaviate answered
search_by_vector(raw_results, top_k, category_filter, color_filter) ==
    LET Kept(raw) ==
            /\ ~(HasText(category_filter)
                 /\ raw.properties.category # category_filter)
            /\ ~(HasText(color_filter) /\ raw.properties.color # color_filter)
    IN Bind(SelectSeq(raw_results, Kept),
            LAMBDA kept :
                Take([i \in 1..Len(kept) |->
                        SearchResult(kept[i].properties, kept[i].similarity,
                                     kept[i].distance)],
                     top_k))

\* fetch_limit
fetch_limit_TopK(top_k, enable_reranking) == top_k
fetch_limit(top_k, enable_reranking) ==
    IF enable_reranking THEN (IF 30 > top_k * 3 THEN 30 ELSE top_k * 3)
    ELSE top_k

\* the first top_k of rerank_results, as SearchResults whose similarity is
\* the final score
Reranked(initial_results, query_text, top_k, category_filter, color_filter) ==
    Bind(Take(rerank_results(initial_results, query_text, color_filter,
                             category_filter, NoWeights, FALSE),
              top_k),
         LAMBDA first :
             [i \in 1..Len(first) |->
                SearchResult(first[i], first[i].final_score,
                             first[i].distance)])

\* the body search_by_text, search_by_image and search_multimodal share once
\* the query vector is there; query_text is what they hand to rerank_results.
\* The answer carries the limit asked of the retriever and what it returned.
Search(index, query_text, top_k, category_filter, color_filter, enable_reranking) ==
    Bind(fetch_limit(top_k, enable_reranking),
         LAMBDA limit :
             Bind(search_by_vector(
                      weaviate_search_by_vector(
                          index, limit, FiltersOf(category_filter, color_filter)),
                      limit, category_filter, color_filter),
                  LAMBDA initial_results :
                      [raised |-> NoArg, limit |-> limit,
                       fetched |-> initial_results,
                       value |->
                         IF ~enable_reranking \/ Len(initial_results) = 0
                         THEN Take(initial_results, top_k)
                         ELSE Reranked(initial_results, query_text, top_k,
                                       category_filter, color_filter)]))

\* a call that raised before Weaviate was asked
Raised(error) == [raised |-> error, limit |-> 0, fetched |-> <<>>, value |-> <<>>]

\* ProductSearchService.search_by_text / search_by_image / search_multimodal
search_by_text(index, query_text, top_k, category_filter, color_filter, enable_reranking) ==
    Search(index, query_text, top_k, category_filter, color_filter,
           enable_reranking)
search_by_image(index, image_path, top_k, category_filter, color_filter, enable_reranking) ==
    Search(index, NoText, top_k, category_filter, color_filter,
           enable_reranking)
search_multimodal(index, text_query, image_path, top_k, category_filter, color_filter, enable_reranking) ==
    IF ~HasText(text_query) /\ ~HasText(image_path) THEN Raised("ValueError")
    ELSE Search(index, text_query, top_k, category_filter, color_filter,
                enable_reranking)

\* the arguments drawn for a search
TopKs == {1, 2, 11}
CategoryFilters == {NoText, <<"h", "a", "t">>}
ColorFilters == {NoText, <<"r", "e", "d">>}
ImagePaths == {NoText, <<"a", ".", "p", "n", "g">>}
SearchCalls ==
    {c \in [op : {"call"},
            fn : {"search_by_text", "search_by_image", "search_multimodal"},
            index : Indexes, query_text : QueryTexts, image_path : ImagePaths,
            top_k : TopKs, category_filter : CategoryFilters,
            color_filter : ColorFilters, enable_reranking : BOOLEAN] :
        /\ c.fn = "search_by_text" => HasText(c.query_text) /\ c.image_path = NoText
        /\ c.fn = "search_by_image" => HasText(c.image_path) /\ c.query_text = NoText}

\* what a search leaves to look at: the call and its answer
Answered(op, args, answer) ==
    [op |-> op, args |-> args, raised |-> answer.raised,
     limit |-> answer.limit, fetched |-> answer.fetched,
     value |-> answer.value]

\* one search of the ProductSearchService
SearchByText ==
    /\ out.op = "call"
    /\ out.fn = "search_by_text"
    /\ out' = Bind(search_by_text(out.index, out.query_text, out.top_k,
                                  out.category_filter, out.color_filter,
                                  out.enable_reranking),
                   LAMBDA answer : Answered("search", out, answer))
    /\ UNCHANGED <<mgrVars, now, first_assigned, procVars, clickVars>>

SearchByImage ==
    /\ out.op = "call"
    /\ out.fn = "search_by_image"
    /\ out' = Bind(search_by_image(out.index, out.image_path, out.top_k,
                                   out.category_filter, out.color_filter,
                                   out.enable_reranking),
                   LAMBDA answer : Answered("search", out, answer))
    /\ UNCHANGED <<mgrVars, now, first_assigned, procVars, clickVars>>

SearchMultimodal ==
    /\ out.op = "call"
    /\ out.fn = "search_multimodal"
    /\ out' = Bind(search_multimodal(out.index, out.query_text,
                                     out.image_path, out.top_k,
                                     out.category_filter, out.color_filter,
                                     out.enable_reranking),
                   LAMBDA answer : Answered("search", out, answer))
    /\ UNCHANGED <<mgrVars, now, first_assigned, procVars, clickVars>>

\* An embedding is the sequence of its components; NoVector is None.
NoVector == <<None>>

\* np.linalg.norm(v)
Norm(v) ==
    LET SumTo[i \in 0..Len(v)] == IF i = 0 THEN FZero
                                  ELSE FAdd(SumTo[i - 1], FMul(v[i], v[i]))
    IN FSqrt(SumTo[Len(v)])

\* image_weight * image_vec + text_weight * text_vec, or the lone vector
Fused(image_vec, text_vec, image_weight, text_weight) ==
    IF image_vec # NoVector /\ text_vec # NoVector
    THEN [i \in 1..Len(image_vec) |->
            FAdd(FMul(image_weight, image_vec[i]),
                 FMul(text_weight, text_vec[i]))]
    ELSE IF image_vec # NoVector THEN image_vec
    ELSE text_vec

\* ProductSearchService.fuse_embeddings
fuse_embeddings(image_vec, text_vec, image_weight, text_weight) ==
    IF image_vec = NoVector /\ text_vec = NoVector
    THEN [raised |-> "ValueError", value |-> NoVector]
    ELSE Bind(Fused(image_vec, text_vec, image_weight, text_weight) \o <<>>,
              LAMBDA fused :
                  Bind(Norm(fused),
                       LAMBDA norm :
                           [raised |-> NoArg,
                            value |-> [i \in 1..Len(fused) |->
                                         FDiv(fused[i], norm)]]))

\* the embeddings and weights drawn: vectors along one axis, whose norms
\* and quotients are exact
Embeddings ==
    {NoVector} \cup
    {<<FloatOfInt(x), FZero>> : x \in {0 - 1, 0, 1, 2}}
FusionWeights == {FZero, Literal(1, 1, 2), FOne}
FuseCalls ==
    [op : {"call"}, fn : {"fuse_embeddings"}, image_vec : Embeddings,
     text_vec : Embeddings, image_weight : FusionWeights,
     text_weight : FusionWeights]

\* fuse_embeddings, called
FuseEmbeddings ==
    /\ out.op = "call"
    /\ out.fn = "fuse_embeddings"
    /\ out' = Bind(fuse_embeddings(out.image_vec, out.text_vec,
                                   out.image_weight, out.text_weight),
                   LAMBDA answer : [op |-> "fuse_embeddings", args |-> out,
                                    raised |-> answer.raised,
                                    value |-> answer.value])
    /\ UNCHANGED <<mgrVars, now, first_assigned, procVars, clickVars>>

\* ----------------------------------------------------- search variants
\* SEARCH_VARIANTS
SEARCH_VARIANTS ==
    [search_v1 |-> "SearchVariantV1", search_v2 |-> "SearchVariantV2"]

\* the enable_reranking each variant class passes to the search service
EnableReranking_Always(variant_class) == TRUE
EnableReranking(variant_class) == variant_class = "SearchVariantV2"

\* SearchVariantV1.search_by_text and SearchVariantV2.search_by_text; fails
\* says the search service raised (CLIP or Weaviate out of reach). The
\* ProductResult built from each result has the fields of the result.
variant_search_by_text_SwallowsFailure(variant_class, index, query_text, top_k, category_filter, color_filter, fails) ==
    IF fails THEN [raised |-> NoArg, limit |-> 0, fetched |-> <<>>,
                   value |-> <<>>]
    ELSE search_by_text(index, query_text, top_k, category_filter,
                        color_filter, EnableReranking(variant_class))
variant_search_by_text(variant_class, index, query_text, top_k, category_filter, color_filter, fails) ==
    IF fails THEN Raised("Exception")
    ELSE search_by_text(index, query_text, top_k, category_filter,
                        color_filter, EnableReranking(variant_class))

VariantCalls ==
    [op : {"call"}, fn : {"variant.search_by_text"},
     variant_class : {SEARCH_VARIANTS[k] : k \in DOMAIN SEARCH_VARIANTS},
     index : Indexes, query_text : QueryTexts \ {NoText}, top_k : TopKs,
     category_filter : CategoryFilters, color_filter : ColorFilters,
     fails : BOOLEAN]

\* a search through a variant class
VariantSearchByText ==
    /\ out.op = "call"
    /\ out.fn = "variant.search_by_text"
    /\ out' = Bind(variant_search_by_text(out.variant_class, out.index,
                                          out.query_text, out.top_k,
                                          out.category_filter,
                                          out.color_filter, out.fails),
                   LAMBDA answer : Answered("variant_search", out, answer))
    /\ UNCHANGED <<mgrVars, now, first_assigned, procVars, clickVars>>

\* get_search_variant: the class registered under the name, or the
\* ValueError raised for a name that is not registered
get_search_variant(variant_name) ==
    IF variant_name \notin DOMAIN SEARCH_VARIANTS
    THEN [raised |-> "ValueError", value |-> NoArg]
    ELSE [raised |-> NoArg, value |-> SEARCH_VARIANTS[variant_name]]

\* the variant names a client may send
SentVariants == VariantNames \cup {"search_v3"}

\* get_search_variant, called
GetSearchVariant(variant_name) ==
    /\ out' = [op |-> "get_search_variant", variant |-> variant_name,
               status_code |-> 0,
               raised |-> get_search_variant(variant_name).raised,
               value |-> get_search_variant(variant_name).value]
    /\ UNCHANGED <<mgrVars, now, first_assigned, procVars, clickVars>>

\* the answer of POST /analytics/log-click and /analytics/log-impression
LogResponse(op, variant, status_code) ==
    [op |-> op, variant |-> variant, status_code |-> status_code,
     raised |-> NoArg, value |-> NoArg]

\* POST /analytics/log-click: the ClickEvent is built from the request as it
\* is and handed to ClickTrackingService.log_click
LogClickApi(user_id, variant) ==
    /\ BagCardinality(clicks_collection) < MaxClicks
    /\ \/ /\ db
          /\ clicks_collection' =
               clicks_collection (+) SetToBag({NewDoc(user_id, variant)})
          /\ out' = LogResponse("log_click", variant, 200)
       \/ \* log_click answered False
          /\ UNCHANGED clicks_collection
          /\ out' = LogResponse("log_click", variant, 500)
    /\ UNCHANGED <<mgrVars, now, first_assigned, procVars, db,
                   impressions_collection>>

\* POST /analytics/log-impression
LogImpressionApi(user_id, variant) ==
    /\ BagCardinality(impressions_collection) < MaxImpressions
    /\ \/ /\ db
          /\ impressions_collection' =
               impressions_collection (+) SetToBag({NewDoc(user_id, variant)})
          /\ out' = LogResponse("log_impression", variant, 200)
       \/ \* log_impression answered False
          /\ UNCHANGED impressions_collection
          /\ out' = LogResponse("log_impression", variant, 500)
    /\ UNCHANGED <<mgrVars, now, first_assigned, procVars, db,
                   clicks_collection>>

\* ------------------------------------------------------ /search-ab/text
\* what a /search-ab/text request finds in the index, and asks for
AbIndexes ==
    {found : found \in {index \in Indexes :
                           /\ Len(index) = 2
                           /\ index[1].properties.title = NoText
                           /\ FLess(index[1].distance, index[2].distance)}}
AbQuery == <<"r", "e", "d">>
AbTopK == 1

\* search_variant.search_by_text(query_text=query, top_k=top_k, ...) of the
\* request, for each strategy, index and outcome of the retrieval
AbSearch ==
    [variant_class \in {SEARCH_VARIANTS[k] : k \in DOMAIN SEARCH_VARIANTS} |->
       [index \in AbIndexes |->
          [fails \in BOOLEAN |->
             variant_search_by_text(variant_class, index, AbQuery, AbTopK,
                                    NoText, NoText, fails)]]]

\* what ExperimentManager.get_assignment answers once assignment was stored
Stored(assignment) ==
    IF storage_backend = "memory" THEN assignment
    ELSE IF storage_backend = "redis"
         THEN AssignmentFromDict(AssignmentToDict(assignment))
         ELSE None

\* the HTTP answer of search_by_text_ab
AbResponse(user_id, variant, status_code, fails, index, results) ==
    [op |-> "search_by_text_ab", user_id |-> user_id, variant |-> variant,
     status_code |-> status_code, fails |-> fails, index |-> index,
     results |-> results]

\* POST /search-ab/text: ABTestingMiddleware.dispatch assigns the variant,
\* search_by_text_ab runs the strategy registered for it and logs the search.
\* fails says the search service raised inside the strategy; drawn and
\* redrawn are the random choices of the assign_variant calls that draw.
SearchByTextAb(user_id, index, fails) ==
    /\ log_file < MaxLog
    /\ \E drawn, redrawn \in {variants[1], variants[2]} :
         LET existing == get_assignment(user_id)
             assignment == IF HasExisting(existing) THEN existing
                           ELSE NewAssignment(user_id, drawn, NoArg)
             variant == VariantValue(assignment.variant)
             search_variant == get_search_variant(variant)
             found == IF HasExisting(existing) THEN existing
                      ELSE Stored(assignment)
             logged == IF HasExisting(found) THEN found
                       ELSE NewAssignment(user_id, redrawn, NoArg)
         IN /\ HasExisting(existing) => drawn = variants[1]
            /\ HasExisting(found) => redrawn = drawn
            /\ IF HasExisting(existing)
               THEN UNCHANGED <<_assignments, redis_assignment>>
               ELSE _store_assignment(assignment)
            /\ NoteAssigned(user_id, assignment)
            /\ IF search_variant.raised # NoArg
               THEN /\ out' = AbResponse(user_id, variant, 400, fails, index,
                                         <<>>)
                    /\ UNCHANGED <<_events, log_file, redis_events>>
               ELSE \E answer \in {AbSearch[search_variant.value][index][fails]} :
                      IF answer.raised # NoArg
                      THEN /\ out' = AbResponse(user_id, variant, 500, fails,
                                                index, <<>>)
                           /\ UNCHANGED <<_events, log_file, redis_events>>
                      ELSE /\ log_event(NewEvent(user_id, logged.variant,
                                                 "search"))
                           /\ out' = AbResponse(user_id, variant, 200, fails,
                                                index, answer.value)
    /\ UNCHANGED <<storage_backend, now, procVars, clickVars>>

\* The same request in the two steps the event loop runs it in: dispatch
\* assigns and awaits call_next, and other requests run before the endpoint.
\* ABTestingMiddleware.dispatch up to `await call_next(request)`
AbDispatch(p, user_id) ==
    /\ pc[p] = "idle"
    /\ log_file + Cardinality({q \in Procs : pc[q] = "ab_endpoint"}) < MaxLog
    /\ \E drawn \in {variants[1], variants[2]} :
         LET existing == get_assignment(user_id)
             assignment == IF HasExisting(existing) THEN existing
                           ELSE NewAssignment(user_id, drawn, NoArg)
         IN /\ HasExisting(existing) => drawn = variants[1]
            /\ IF HasExisting(existing)
               THEN UNCHANGED <<_assignments, redis_assignment>>
               ELSE _store_assignment(assignment)
            /\ NoteAssigned(user_id, assignment)
            /\ frame' = [frame EXCEPT ![p] =
                           [NoFrame EXCEPT !.op = "search_by_text_ab",
                                           !.user_id = user_id,
                                           !.assignment = assignment]]
            /\ pc' = [pc EXCEPT ![p] = "ab_endpoint"]
    /\ UNCHANGED <<storage_backend, _events, redis_events, log_file, now, out,
                   clickVars>>

\* search_by_text_ab: the strategy of request.state.variant runs, then
\* manager.log_search(user_id, ...) logs under the assignment it finds or makes
AbEndpoint(p, index, fails) ==
    /\ pc[p] = "ab_endpoint"
    /\ pc' = [pc EXCEPT ![p] = "idle"]
    /\ frame' = [frame EXCEPT ![p] = NoFrame]
    /\ \E redrawn \in {variants[1], variants[2]} :
         LET user_id == frame[p].user_id
             variant == VariantValue(frame[p].assignment.variant)
             search_variant == get_search_variant(variant)
             found == get_assignment(user_id)
             logged == IF HasExisting(found) THEN found
                       ELSE NewAssignment(user_id, redrawn, NoArg)
             Failed(status_code) ==
                 /\ redrawn = variants[1]
                 /\ out' = AbResponse(user_id, variant, status_code, fails,
                                      index, <<>>)
                 /\ UNCHANGED <<mgrVars, first_assigned>>
         IN IF search_variant.raised # NoArg THEN Failed(400)
            ELSE \E answer \in {AbSearch[search_variant.value][index][fails]} :
                   IF answer.raised # NoArg THEN Failed(500)
                   ELSE /\ HasExisting(found) => redrawn = variants[1]
                        /\ IF HasExisting(found)
                           THEN UNCHANGED <<_assignments, redis_assignment,
                                            first_assigned>>
                           ELSE /\ _store_assignment(logged)
                                /\ NoteAssigned(user_id, logged)
                        /\ log_event(NewEvent(user_id, logged.variant,
                                              "search"))
                        /\ out' = AbResponse(user_id, variant, 200, fails,
                                             index, answer.value)
                        /\ UNCHANGED storage_backend
    /\ UNCHANGED <<now, clickVars>>

\* the state after construction of the ExperimentManager
InitManager ==
    /\ storage_backend \in Backends
    /\ _assignments = [u \in Users |-> None]
    /\ _events = <<>>
    /\ redis_assignment = [u \in Users |-> None]
    /\ redis_events = [u \in Users |-> 0]
    /\ log_file = 0
    /\ now = 0
    /\ out = [op |-> "init"]
    /\ first_assigned = [u \in Users |-> None]
    /\ pc = [p \in Procs |-> "idle"]
    /\ frame = [p \in Procs |-> NoFrame]

\* no ClickTrackingService has connected (_click_tracker is None)
Init ==
    /\ InitManager
    /\ db = FALSE
    /\ clicks_collection = EmptyBag
    /\ impressions_collection = EmptyBag

\* the ClickTrackingService is constructed: MongoDB answered the ping or not.
\* The two services share no state, so SpecClick explores the tracker next to
\* an idle ExperimentManager in its default configuration (db), and the
\* ExperimentManager next to a tracker that records nothing (~db).
InitClick ==
    /\ InitManager
    /\ db \in BOOLEAN
    /\ db => storage_backend = "memory"
    /\ clicks_collection = EmptyBag
    /\ impressions_collection = EmptyBag

NextSeq ==
    \/ \E u \in Users, m \in Metadatas : AssignVariant(u, m)
    \/ \E u \in Users : GetAssignment(u)
    \/ \E u \in Users : LogSearch(u)
    \/ \E u \in Users : LogClick(u)
    \/ GetMetrics
    \/ Reset
    \/ Tick

SpecSeq == Init /\ [][NextSeq]_vars

NextQuery ==
    \/ \E u \in Users : LogSearch(u)
    \/ \E u \in Users : LogClick(u)
    \/ \E u \in UserFilters, v \in VariantFilters, t \in TypeFilters,
          l \in Limits : GetEvents(u, v, t, l)
    \/ Reset

SpecQuery == Init /\ [][NextQuery]_vars

Next ==
    \/ \E p \in Procs, u \in Users, m \in Metadatas : AssignBegin(p, u, m)
    \/ \E p \in Procs : AssignCheck(p)
    \/ \E p \in Procs : AssignDraw(p)
    \/ \E p \in Procs : AssignStore(p)
    \/ \E p \in Procs, u \in Users : LogBegin(p, "log_search", u)
    \/ \E p \in Procs, u \in Users : LogBegin(p, "log_click", u)
    \/ \E p \in Procs : LogBuild(p)
    \/ \E p \in Procs : LogAppend(p)
    \/ \E p \in Procs : ResetBegin(p)
    \/ \E p \in Procs : ResetEvents(p)

Spec == Init /\ [][Next]_vars

NextClick ==
    \/ \E u \in Users, v \in VariantNames : CtLogClick(u, v)
    \/ \E u \in Users, v \in VariantNames : CtLogImpression(u, v)
    \/ CtReset
    \/ \E u \in Users \cup {NoArg}, v \in VariantArgs, d \in DaysArgs :
          GetCtr(u, v, d)
    \/ CtTick
    \/ \E u \in Users : ~db /\ LogSearch(u)
    \/ \E u \in Users : ~db /\ LogClick(u)
    \/ ~db /\ GetMetrics
    \/ ~db /\ Reset

SpecClick == InitClick /\ [][NextClick]_vars

\* SpecTracker: every method of the ClickTrackingService, with and without
\* a database, for the events of one user within one day; find() returns no
\* more ranks and response times than there are clicks and impressions
TrackerUsers == {"u1"}
NextTracker ==
    \/ \E u \in TrackerUsers, v \in VariantNames : CtLogClick(u, v)
    \/ \E u \in TrackerUsers, v \in VariantNames : CtLogImpression(u, v)
    \/ CtReset
    \/ \E u \in TrackerUsers \cup {NoArg}, v \in VariantArgs, d \in DaysArgs :
          GetCtr(u, v, d)
    \/ \E ranks \in RankSamples :
          /\ Len(ranks) <= BagCardinality(clicks_collection)
          /\ GetRankMetrics(ranks)
    \/ \E times \in TimeSamples :
          /\ Len(times) <= BagCardinality(impressions_collection)
          /\ GetResponseTimeMetrics(times)

SpecTracker == InitClick /\ [][NextTracker]_vars

\* SpecStats: the statistics of the ClickTrackingService over what its
\* queries find
NextStats ==
    \/ \E ranks \in RankSamples : GetRankMetrics(ranks)
    \/ \E times \in TimeSamples : GetResponseTimeMetrics(times)
    \/ \E r1, r2 \in CompareRanks, t1, t2 \in CompareTimes, d \in DaysArgs :
          GetVariantComparison(
              [v \in VariantNames |->
                 IF v = "search_v1" THEN [ranks |-> r1, times |-> t1]
                 ELSE [ranks |-> r2, times |-> t2]], d)

SpecStats == InitClick /\ [][NextStats]_vars

\* SpecRank, SpecSearch: one call of the ranking module, of the search
\* service or of a search variant, its arguments drawn at the start
\* the services at construction, before `out` is drawn
Constructed ==
    /\ storage_backend = "memory"
    /\ _assignments = [u \in Users |-> None]
    /\ _events = <<>>
    /\ redis_assignment = [u \in Users |-> None]
    /\ redis_events = [u \in Users |-> 0]
    /\ log_file = 0
    /\ now = 0
    /\ first_assigned = [u \in Users |-> None]
    /\ pc = [p \in Procs |-> "idle"]
    /\ frame = [p \in Procs |-> NoFrame]
    /\ db = FALSE
    /\ clicks_collection = EmptyBag
    /\ impressions_collection = EmptyBag

InitRank ==
    /\ Constructed
    /\ out \in ScoreCalls \cup RerankCalls \cup DebugCalls \cup ColourCalls

NextRank ==
    \/ ComputeFinalScore
    \/ RerankResults

SpecRank == InitRank /\ [][NextRank]_vars

\* callers about to score one shared list; out.passed keeps the list as it
\* was passed
InitScoring ==
    /\ Constructed
    /\ \E kind \in SharedKinds, results \in SharedLists :
           out = [op |-> "candidates", kind |-> kind, results |-> results,
                  passed |-> results]

NextScoring ==
    \/ \E p \in Procs, query_color \in QueryColors : RerankBegin(p, query_color)
    \/ \E p \in Procs : RerankLoop(p)
    \/ \E p \in Procs : RerankReturn(p)

SpecScoring == InitScoring /\ [][NextScoring]_vars

InitSearch == Constructed /\ out \in SearchCalls \cup VariantCalls \cup FuseCalls

NextSearch ==
    \/ SearchByText
    \/ SearchByImage
    \/ SearchMultimodal
    \/ VariantSearchByText
    \/ FuseEmbeddings

SpecSearch == InitSearch /\ [][NextSearch]_vars

\* SpecAb: requests to /search-ab/text, one after the other
NextAb ==
    \E u \in Users, index \in AbIndexes, fails \in BOOLEAN :
        SearchByTextAb(u, index, fails)

SpecAb == Init /\ [][NextAb]_vars

\* SpecAbSteps: requests to /search-ab/text and to /ab/reset, taking turns
\* in the event loop
NextAbSteps ==
    \/ \E p \in Procs, u \in Users : AbDispatch(p, u)
    \/ \E p \in Procs, index \in AbIndexes, fails \in BOOLEAN :
          AbEndpoint(p, index, fails)
    \/ Reset

SpecAbSteps == Init /\ [][NextAbSteps]_vars

\* SpecIngest: variant names arriving from clients, at get_search_variant and
\* at the analytics endpoints of a connected ClickTrackingService
InitIngest ==
    /\ InitManager
    /\ storage_backend = "memory"
    /\ db = TRUE
    /\ clicks_collection = EmptyBag
    /\ impressions_collection = EmptyBag

NextIngest ==
    \/ \E v \in SentVariants : GetSearchVariant(v)
    \/ \E u \in Users, v \in SentVariants : LogClickApi(u, v)
    \/ \E u \in Users, v \in SentVariants : LogImpressionApi(u, v)

SpecIngest == InitIngest /\ [][NextIngest]_vars

\* SpecLog: log_search and log_click called by concurrent callers, statement
\* by statement, while the clock runs
NextLog ==
    \/ \E p \in Procs, u \in Users : LogBegin(p, "log_search", u)
    \/ \E p \in Procs, u \in Users : LogBegin(p, "log_click", u)
    \/ \E p \in Procs : AssignCheck(p)
    \/ \E p \in Procs : AssignDraw(p)
    \/ \E p \in Procs : AssignStore(p)
    \/ \E p \in Procs : LogBuild(p)
    \/ \E p \in Procs : LogAppend(p)
    \/ Tick

SpecLog == Init /\ [][NextLog]_vars

\* ======================================================== properties
\* C1 (as claimed): without a reset in between, every assign_variant(u) call
\* returns the variant and the assigned_at that the first call for u returned.
C1_StickyAssignment ==
    out.op = "assign_variant" =>
        /\ out.value.variant = first_assigned[out.user_id].variant
        /\ out.value.assigned_at = first_assigned[out.user_id].assigned_at

\* the step in which reset() clears the assignments
ResetStep == \E p \in Procs : pc[p] = "idle" /\ pc'[p] = "reset_events"

\* the step in which an assign_variant call for u stores its assignment
StoreStep(u) ==
    \E p \in Procs : /\ pc[p] = "assign_store"
                     /\ frame[p].user_id = u
                     /\ pc'[p] # "assign_store"

\* C2 (as claimed): a user becomes Assigned only by the store of assign_variant,
\* and an Assigned user keeps the same stored assignment in every step that
\* is not reset().
C2_TwoStateMachine ==
    [][\A u \in Users :
         /\ (get_assignment(u) = None /\ get_assignment(u)' # None)
               => StoreStep(u)
         /\ (get_assignment(u) # None /\ ~ResetStep)
               => get_assignment(u)' = get_assignment(u)]_vars

\* a first-contact assign_variant(u) call is past its existence check, which
\* found no assignment, and has not returned yet
FirstContactInFlight(u) ==
    \E p \in Procs : /\ pc[p] \in {"assign_draw", "assign_store"}
                     /\ frame[p].user_id = u
                     /\ frame[p].existing = None

C4_CallersGetStoredVariant ==
    \A u \in Users :
        (/\ \A p \in Procs : frame[p].user_id # u
         /\ first_assigned[u] # None
         /\ get_assignment(u) # None)
            => get_assignment(u).variant = first_assigned[u].variant

\* C5 (as claimed): right after reset() no user has an assignment, get_events
\* returns nothing and get_metrics counts no event.
C5_ResetClearsAll ==
    out.op = "reset" =>
        /\ \A u \in Users : get_assignment(u) = None
        /\ \A l \in 1..MaxLimit : get_events(NoArg, NoArg, NoArg, l) = <<>>
        /\ get_metrics.total_events = 0

\* seq is a prefix of longer
IsPrefix(seq, longer) ==
    /\ Len(seq) <= Len(longer)
    /\ SubSeq(longer, 1, Len(seq)) = seq

C7_EventsCarryAssignedVariant ==
    /\ out.op \in {"log_search", "log_click"}
          => get_assignment(out.user_id) # None
    /\ \A i \in 1..Len(_events) :
          /\ get_assignment(_events[i].user_id) # None
          /\ get_assignment(_events[i].user_id).variant = _events[i].variant

\* --------------------------------------------------- queries of the log
\* seq holds the elements of a subsequence of longer, in the order of longer
RECURSIVE IsSubSeq(_, _)
IsSubSeq(seq, longer) ==
    IF seq = <<>> THEN TRUE
    ELSE IF longer = <<>> THEN FALSE
    ELSE IF Head(seq) = Head(longer) THEN IsSubSeq(Tail(seq), Tail(longer))
    ELSE IsSubSeq(seq, Tail(longer))

\* the smaller of two numbers
Min(a, b) == IF a < b THEN a ELSE b

\* C8 (as claimed): for every choice of filters and limit, get_events returns
\* only events satisfying every filter that was passed (None and the empty
\* string pass no filter), and lists them most-recent-first: read backwards,
\* the result follows the order of logging.
C8_FilteredMostRecentFirst ==
    \A u \in UserFilters, v \in VariantFilters, t \in TypeFilters, l \in Limits :
        LET r == get_events(u, v, t, l) IN
        /\ \A i \in 1..Len(r) :
              /\ Truthy(u) => r[i].user_id = u
              /\ Truthy(v) => r[i].variant = v
              /\ Truthy(t) => r[i].event_type = t
        /\ IsSubSeq(Reverse(r), _events)

\* C8 (amended): for every choice of filters and limit, get_events returns
\* only events satisfying every filter that was passed (None and the empty
\* string pass no filter), and lists them in the order they were logged, oldest first, ending (for a
\* positive limit) with the most recently logged matching event.
C8_FilteredOldestFirst ==
    \A u \in UserFilters, v \in VariantFilters, t \in TypeFilters, l \in Limits :
        LET r == get_events(u, v, t, l)
            matching == {i \in 1..Len(_events) :
                           /\ Truthy(u) => _events[i].user_id = u
                           /\ Truthy(v) => _events[i].variant = v
                           /\ Truthy(t) => _events[i].event_type = t}
        IN
        /\ \A i \in 1..Len(r) :
              /\ Truthy(u) => r[i].user_id = u
              /\ Truthy(v) => r[i].variant = v
              /\ Truthy(t) => r[i].event_type = t
        /\ IsSubSeq(r, _events)
        /\ (l > 0 /\ matching # {}) =>
              /\ r # <<>>
              /\ r[Len(r)] = _events[CHOOSE i \in matching :
                                        \A j \in matching : j <= i]

\* a get_events call has returned the whole log, two events of different
\* users, the older one first, and a user filter selects one of them
C8_Witness ==
    /\ out.op = "get_events"
    /\ Len(_events) = 2
    /\ out.value = _events
    /\ _events[1].user_id # _events[2].user_id
    /\ _events[1].event_type = "search"
    /\ _events[2].event_type = "click"
    /\ get_events(_events[2].user_id, NoArg, NoArg, 2) = <<_events[2]>>

\* C9 (as claimed): for every limit L >= 0 and every choice of filters, with
\* n the number of logged events matching the filters, get_events returns
\* exactly min(n, L) events, and they are the L most recently logged matching
\* events.
C9_LimitBoundsResult ==
    \A u \in UserFilters, v \in VariantFilters, t \in TypeFilters, l \in Limits :
        LET r == get_events(u, v, t, l)
            matching == SelectSeq(_events,
                          LAMBDA e : MatchesFilters(e, u, v, t))
            n == Len(matching)
        IN
        /\ Len(r) = Min(n, l)
        /\ Len(r) <= l
        /\ r = SubSeq(matching, n - Min(n, l) + 1, n)

\* ------------------------------------------------------ click-through rate
\* the number of documents of a collection inside the window that carry the
\* user and the variant asked for
InWindow(collection, user_id, variant, days) ==
    LET S == {d \in DOMAIN collection :
                /\ d.timestamp >= now - days
                /\ user_id # NoArg => d.user_id = user_id
                /\ variant # NoArg => d.variant = variant}
        RECURSIVE Sum(_)
        Sum(T) == IF T = {} THEN 0
                  ELSE LET d == CHOOSE x \in T : TRUE
                       IN collection[d] + Sum(T \ {d})
    IN Sum(S)

\* the number of logged events of one type and one variant
Logged(event_type, variant) ==
    Cardinality({i \in 1..Len(_events) :
                   /\ _events[i].event_type = event_type
                   /\ _events[i].variant = variant})

\* the float q is exactly clicks / shown, and 0 when shown = 0
IsExactRate(q, clicks, shown) ==
    IF shown = 0 THEN q.num = 0 ELSE q.num * shown = clicks * q.den

\* the float q is clicks / shown to four decimals, and 0 when shown = 0
IsRateToFourDecimals(q, clicks, shown) ==
    IF shown = 0 THEN q.num = 0
    ELSE LET n == q.num * (10000 \div q.den)
             diff == n * shown - clicks * 10000
         IN /\ 10000 % q.den = 0
            /\ 2 * (IF diff < 0 THEN 0 - diff ELSE diff) <= shown

\* the variant string of the click service for a variant of the manager
ManagerVariant(v) == IF v = "search_v1" THEN variants[1] ELSE variants[2]

ExactRate(clicks, shown) ==
    IF shown = 0 THEN Quotient(0, 1) ELSE Quotient(clicks, shown)

\* the exact click-through rate of a variant in what a comparison found
FoundRate(v) == ExactRate(Len(out.found[v].ranks), Len(out.found[v].times))

\* C11 (as claimed): get_variant_comparison declares search_v2 the winner
\* exactly when its CTR, clicks / impressions in the window, is strictly
\* higher than that of search_v1, and declares search_v1 otherwise, in
\* particular when the two CTRs are equal.
C11_WinnerHasHigherCtr ==
    (out.op = "get_variant_comparison" /\ out.answered) =>
        out.value.winner_by_ctr =
            IF FoundRate("search_v1").num * FoundRate("search_v2").den
                 < FoundRate("search_v2").num * FoundRate("search_v1").den
            THEN "search_v2" ELSE "search_v1"

\* C11 (amended): the ctr get_variant_comparison reports for each variant is
\* its clicks / impressions in the window rounded to four decimals (0.0
\* without impressions); the declared winner is a variant whose reported ctr
\* no other variant exceeds, and it is search_v2 only if the reported ctr of
\* search_v2 is strictly higher than that of search_v1.
C11_WinnerHasHigherReportedCtr ==
    (out.op = "get_variant_comparison" /\ out.answered) =>
        LET reported == [v \in VariantNames |-> out.value.variants[v].ctr]
            winner == out.value.winner_by_ctr
        IN /\ winner \in VariantNames
           /\ \A v \in VariantNames :
                 /\ IsRateToFourDecimals(reported[v],
                        Len(out.found[v].ranks), Len(out.found[v].times))
                 /\ reported[v].num * reported[winner].den
                      <= reported[winner].num * reported[v].den
           /\ winner = "search_v2" =>
                 reported["search_v1"].num * reported["search_v2"].den
                   < reported["search_v2"].num * reported["search_v1"].den

\* a comparison of one click in 108 impressions with one click in 107 has
\* declared search_v1, both rates being reported as 0.0093
C11_Witness ==
    /\ out.op = "get_variant_comparison"
    /\ out.answered
    /\ Len(out.found["search_v1"].ranks) = 1
    /\ Len(out.found["search_v1"].times) = 108
    /\ Len(out.found["search_v2"].ranks) = 1
    /\ Len(out.found["search_v2"].times) = 107
    /\ out.value.variants["search_v1"].ctr = Quotient(93, 10000)
    /\ out.value.variants["search_v2"].ctr = Quotient(93, 10000)
    /\ out.value.winner_by_ctr = "search_v1"

\* C12 (as claimed): when the database answers and the filter and window hold
\* no event, get_ctr, get_rank_metrics, get_response_time_metrics and
\* get_variant_comparison each answer with every statistic they report for
\* non-empty data (ctr and counts; mean, median, min and max rank and the
\* histogram; mean, min, max and p95 latency), each zero or empty.
C12_EmptyWindowsAreZeroed ==
    /\ (db /\ clicks_collection = EmptyBag
           /\ impressions_collection = EmptyBag) =>
          \A u \in Users \cup {NoArg}, v \in VariantArgs, d \in DaysArgs :
             /\ {"ctr", "clicks", "impressions"}
                   \subseteq DOMAIN get_ctr(u, v, d)
             /\ get_ctr(u, v, d).ctr.num = 0
             /\ get_ctr(u, v, d).clicks = 0
             /\ get_ctr(u, v, d).impressions = 0
    /\ (out.op = "get_rank_metrics" /\ out.answered /\ out.found = <<>>) =>
          /\ {"avg_rank", "median_rank", "min_rank", "max_rank",
              "clicks_by_rank", "total_clicks"} \subseteq DOMAIN out.value
          /\ out.value.avg_rank.num = 0
          /\ out.value.median_rank = 0
          /\ out.value.min_rank = 0
          /\ out.value.max_rank = 0
          /\ out.value.clicks_by_rank = <<>>
          /\ out.value.total_clicks = 0
    /\ (out.op = "get_response_time_metrics" /\ out.answered
           /\ out.found = <<>>) =>
          /\ {"avg_response_time_ms", "min_response_time_ms",
              "max_response_time_ms", "p95_response_time_ms", "count"}
                \subseteq DOMAIN out.value
          /\ out.value.avg_response_time_ms.num = 0
          /\ out.value.min_response_time_ms = 0
          /\ out.value.max_response_time_ms = 0
          /\ out.value.p95_response_time_ms = 0
          /\ out.value.count = 0
    /\ (out.op = "get_variant_comparison" /\ out.answered
           /\ \A v \in VariantNames :
                 out.found[v] = [ranks |-> <<>>, times |-> <<>>]) =>
          /\ "error" \notin DOMAIN out.value
          /\ \A v \in VariantNames :
                /\ out.value.variants[v].clicks = 0
                /\ out.value.variants[v].impressions = 0
                /\ out.value.variants[v].ctr.num = 0
                /\ out.value.variants[v].avg_rank_clicked.num = 0
                /\ out.value.variants[v].avg_response_time_ms.num = 0

\* a float that is a number between 0.0 and 1.0, both included
InUnitInterval(x) == ~IsNaN(x) /\ ~FLess(x, FZero) /\ ~FLess(FOne, x)

\* C13: every final_score compute_final_score returns, and every final_score
\* rerank_results attaches to a result, is a number in [0, 1], whatever the
\* vector similarity (None, not a number, below 0 or above 1) and the weights
C13_FinalScoreInUnitInterval ==
    /\ out.op = "compute_final_score" => InUnitInterval(out.value)
    /\ out.op = "rerank_results" =>
         \A i \in 1..Len(out.value) : InUnitInterval(out.value[i].final_score)

\* the weighted sum of a scored call left [0, 1] or was not a number, and the
\* score came back inside
C13_Witness ==
    /\ out.op = "compute_final_score"
    /\ LET a == out.args
           s == WeightedSum(UpdatedWeights(a.weights),
                            IF a.vector_sim # NoFloat THEN a.vector_sim
                            ELSE FZero,
                            a.color_match, a.category_match, a.text_sim)
       IN /\ IsNaN(s)
          /\ out.value = FOne

\* weights none of which is negative
NonNegative(weights) ==
    \A k \in DOMAIN DefaultWeights : ~FLess(UpdatedWeights(weights)[k], FZero)

\* the call scored every component as x with the default weights
ScoredAll(x) ==
    /\ out.op = "compute_final_score"
    /\ out.args.weights = NoWeights
    /\ out.args.vector_sim = x
    /\ out.args.color_match = x
    /\ out.args.category_match = x
    /\ out.args.text_sim = x

\* the score of the call does not exceed the score of the same call with one
\* component raised
MonotoneInEachComponent ==
    (out.op = "compute_final_score" /\ NonNegative(out.args.weights)) =>
      LET a == out.args
          Holds(s) == ~FLess(s, out.value)
      IN /\ \A v \in VectorSims \ {NoFloat, NaN} :
              (a.vector_sim \notin {NoFloat, NaN} /\ FLess(a.vector_sim, v)) =>
                Holds(compute_final_score(v, a.color_match, a.category_match,
                                          a.text_sim, a.weights))
         /\ \A c \in MatchValues :
              FLess(a.color_match, c) =>
                Holds(compute_final_score(a.vector_sim, c, a.category_match,
                                          a.text_sim, a.weights))
         /\ \A c \in MatchValues :
              FLess(a.category_match, c) =>
                Holds(compute_final_score(a.vector_sim, a.color_match, c,
                                          a.text_sim, a.weights))
         /\ \A t \in TextSims :
              FLess(a.text_sim, t) =>
                Holds(compute_final_score(a.vector_sim, a.color_match,
                                          a.category_match, t, a.weights))

\* C14: with the default weights compute_final_score(1,1,1,1) is 1.0 and
\* compute_final_score(0,0,0,0) is 0.0, and with non-negative weights the
\* score never decreases when one component increases and the others stay
C14_UnitScoreAndMonotone ==
    /\ ScoredAll(FOne) => out.value = FOne
    /\ ScoredAll(FZero) => out.value = FZero
    /\ MonotoneInEachComponent

\* the float next below 1.0, which is 1 - 2^-53 and prints 0.9999999999999999
BelowOne == FAdd(FOne, FNeg(MakeFloat(1, <<1>>, 0 - MantBits)))

\* every component was 1 under the default weights and the score is
\* 0.5 + 0.2 + 0.2 + 0.1 as binary64 sums it in that order
C14_Witness == ScoredAll(FOne) /\ out.value = BelowOne

\* a result of rerank_results without the final_score it was given
WithoutScore(rd) ==
    [f \in DOMAIN rd \ {"final_score", "debug_scores"} |-> rd[f]]

\* the one-to-one maps of 1..n onto itself
Orderings(n) ==
    {p \in [1..n -> 1..n] : \A i, j \in 1..n : p[i] = p[j] => i = j}

\* result r lists the candidates of input in the order p, an order that
\* leaves candidates of equal final_score as the input had them
IsStableOrder(p, r, input) ==
    /\ \A k \in 1..Len(r) : WithoutScore(r[k]) = input[p[k]]
    /\ \A k, l \in 1..Len(r) :
         (k < l /\ r[k].final_score = r[l].final_score) => p[k] < p[l]

\* C15: rerank_results returns a permutation of its input candidates, ordered
\* by non-increasing final_score, and candidates of equal final_score keep
\* their relative input order
C15_StablePermutationByScore ==
    out.op = "rerank_results" =>
      LET r == out.value
          input == out.args.results
      IN /\ Len(r) = Len(input)
         /\ \A k, l \in 1..Len(r) :
              k < l => ~FLess(r[k].final_score, r[l].final_score)
         /\ \E p \in Orderings(Len(input)) : IsStableOrder(p, r, input)

\* three candidates were re-ranked: the last of the input came first, and the
\* two others, different products of equal final_score, kept their order
C15_Witness ==
    /\ out.op = "rerank_results"
    /\ Len(out.value) = 3
    /\ WithoutScore(out.value[1]) = out.args.results[3]
    /\ WithoutScore(out.value[2]) = out.args.results[1]
    /\ WithoutScore(out.value[3]) = out.args.results[2]
    /\ FLess(out.value[2].final_score, out.value[1].final_score)
    /\ out.value[2].final_score = out.value[3].final_score
    /\ out.value[2].product_id # out.value[3].product_id

\* the first n entries of s at most
FirstOf(s, n) == SubSeq(s, 1, Min(n, Len(s)))

ScoredText(call) ==
    IF call.fn = "search_by_image" THEN NoText ELSE call.query_text

\* the final_score of a fetched candidate under the filters and text of a call
ScoreOf(candidate, call) ==
    compute_final_score(candidate.similarity,
                        exact_match_boost(call.color_filter, candidate.color),
                        exact_match_boost(call.category_filter,
                                          candidate.category),
                        text_similarity(ScoredText(call), candidate.title),
                        NoWeights)

\* value lists, best first, the top_k best-scored candidates of fetched, each
\* with its final_score as similarity
IsTopByScore(value, fetched, call) ==
    /\ Len(value) = Min(call.top_k, Len(fetched))
    /\ \A k, l \in 1..Len(value) :
         k < l => ~FLess(value[k].similarity, value[l].similarity)
    /\ \E chosen \in [1..Len(value) -> 1..Len(fetched)] :
         /\ \A k, l \in 1..Len(value) : chosen[k] = chosen[l] => k = l
         /\ \A k \in 1..Len(value) :
              value[k] = [fetched[chosen[k]] EXCEPT
                            !.similarity = ScoreOf(fetched[chosen[k]], call)]
         /\ \A j \in 1..Len(fetched) :
              (\A k \in 1..Len(value) : chosen[k] # j) =>
                \A k \in 1..Len(value) :
                    ~FLess(value[k].similarity, ScoreOf(fetched[j], call))

\* C17: for every top_k >= 1, search_by_text, search_by_image and
\* search_multimodal ask the retriever for max(30, 3 * top_k) candidates when
\* re-ranking is enabled and for top_k when it is disabled, and with
\* re-ranking enabled they return the at most top_k fetched candidates of
\* highest final_score, in score order
C17_FetchLimitAndTopByScore ==
    (out.op = "search" /\ out.raised = NoArg) =>
      LET call == out.args
      IN /\ call.enable_reranking =>
              /\ out.limit = MaxOf(<<30, 3 * call.top_k>>)
              /\ IsTopByScore(out.value, out.fetched, call)
         /\ ~call.enable_reranking => out.limit = call.top_k

\* a re-ranked search for one result fetched several candidates and returned
\* one the retriever had not ranked first
C17_Witness ==
    /\ out.op = "search"
    /\ out.args.enable_reranking
    /\ out.args.top_k = 1
    /\ out.limit = 30
    /\ Len(out.fetched) > 1
    /\ Len(out.value) = 1
    /\ out.value[1].product_id # out.fetched[1].product_id

\* C18: when the enhanced strategy (search_v2) fails while handling a request,
\* the request is answered with the baseline ranking and does not fail
C18_EnhancedFailureFallsBack ==
    (/\ out.op = "search_by_text_ab"
     /\ out.variant = "search_v2"
     /\ out.fails) =>
      /\ out.status_code = 200
      /\ out.results =
           variant_search_by_text("SearchVariantV1", out.index, AbQuery,
                                  AbTopK, NoText, NoText, FALSE).value

\* the vector fuse_embeddings normalises has norm zero
ZeroNorm(call) ==
    Norm(Fused(call.image_vec, call.text_vec, call.image_weight,
               call.text_weight)) = FZero

\* C19: fuse_embeddings fails with an invalid-input error when neither vector
\* is given, fails with a degenerate-vector error when the weighted sum (or
\* the lone input) has norm zero, and otherwise returns a vector of norm 1
C19_FusionFailsOrIsUnit ==
    out.op = "fuse_embeddings" =>
      LET call == out.args
      IN IF call.image_vec = NoVector /\ call.text_vec = NoVector
         THEN out.raised = "ValueError"
         ELSE IF ZeroNorm(call)
         THEN out.raised \notin {NoArg, "ValueError"}
         ELSE out.raised = NoArg /\ Norm(out.value) = FOne

\* C20: a variant name outside {search_v1, search_v2} is rejected wherever it
\* is supplied: get_search_variant raises for it and returns no strategy, and
\* no click or impression carrying such a name is ever recorded
C20_UnknownVariantRejected ==
    /\ (out.op = "get_search_variant" /\ out.variant \notin VariantNames) =>
          out.raised = "ValueError" /\ out.value = NoArg
    /\ \A d \in BagToSet(clicks_collection) \cup
                BagToSet(impressions_collection) :
          d.variant \in VariantNames

\* ------------------------------------------------------ order of the log
\* C21 (as claimed): the events of the log are in the order of their
\* timestamps, none earlier than the one before it, however the statements of
\* concurrent log_search and log_click calls interleave.
C21_LogOrderedByTimestamp ==
    \A i, j \in 1..Len(_events) :
        i < j => _events[i].timestamp <= _events[j].timestamp

\* ------------------------------------------------- colour match and rank
\* the vector similarity compute_final_score uses for a candidate
SimilarityOf(x) == IF x.similarity # NoFloat THEN x.similarity ELSE FZero

\* the colour of the candidate is the colour the query names, whatever the case
HasQueryColour(x, query_color) ==
    HasText(query_color) /\ HasText(x.color)
    /\ Lower(Strip(x.color)) = Lower(Strip(query_color))

\* candidate a has the colour of the query and b has not, their category and
\* text components are equal, and the similarity of a is less than 0.4 below
\* the similarity of b
ColourDecides(a, b, call) ==
    /\ HasQueryColour(a, call.query_color)
    /\ ~HasQueryColour(b, call.query_color)
    /\ (HasText(call.query_category) =>
          (HasText(a.category) /\ HasText(b.category)
           /\ Lower(Strip(a.category)) = Lower(Strip(b.category))))
    /\ text_similarity(call.query_text, a.title)
         = text_similarity(call.query_text, b.title)
    /\ FLess(FAdd(SimilarityOf(b), FNeg(SimilarityOf(a))), Literal(1, 2, 5))

\* C22 (as claimed): with the default weights, of two candidates with equal
\* category and text components the one whose colour is the query colour
\* (case-insensitively) ranks above the one whose colour is not, whenever its
\* vector similarity is less than 0.4 below the other's.
C22_ColourMatchRanksAbove ==
    (out.op = "rerank_results" /\ out.args.weights = NoWeights) =>
      \A k, l \in 1..Len(out.value) :
          ColourDecides(out.value[k], out.value[l], out.args) => k < l

\* C22 (amended): under the same conditions the candidate with the query
\* colour ranks above the other or has exactly the final_score of the other
\* (0.5 * 0.3 + 0.2 and 0.5 * 0.7 are both 0.35 in binary64); 0.75 with
\* the query colour ranks above 0.85 without it.
C22_ColourMatchRanksAboveOrTies ==
    (out.op = "rerank_results" /\ out.args.weights = NoWeights) =>
      \A k, l \in 1..Len(out.value) :
          ColourDecides(out.value[k], out.value[l], out.args) =>
            /\ ~FLess(out.value[k].final_score, out.value[l].final_score)
            /\ k < l \/ out.value[k].final_score = out.value[l].final_score
            /\ (/\ out.value[k].similarity = Literal(1, 3, 4)
                /\ out.value[l].similarity = Literal(1, 17, 20)) => k < l

\* the candidate of similarity 0.85 came first from the retriever, and the
\* candidate of similarity 0.75 that has the query colour was ranked first
C22_Witness ==
    /\ out.op = "rerank_results"
    /\ Len(out.value) = 2
    /\ out.args.results[1].similarity = Literal(1, 17, 20)
    /\ out.args.results[2].similarity = Literal(1, 3, 4)
    /\ ColourDecides(out.value[1], out.value[2], out.args)
    /\ WithoutScore(out.value[1]) = out.args.results[2]
    /\ FLess(out.value[2].final_score, out.value[1].final_score)

\* ------------------------------------------- the variant a search is logged under
\* C23 (as claimed): the search event a /search-ab/text request appends carries
\* the variant whose strategy ran the request, the one dispatch injected and
\* the response names, whatever other requests ran in between.
C23_LoggedVariantIsExecutedVariant ==
    [][(Len(_events') = Len(_events) + 1 /\ out'.op = "search_by_text_ab") =>
         /\ _events'[Len(_events')].user_id = out'.user_id
         /\ VariantValue(_events'[Len(_events')].variant) = out'.variant]_vars

\* ---------------------------------------------------------------- C24
\* the dict a call returned, without the breakdown a debug call attached
WithoutDebug(rd) == [f \in DOMAIN rd \ {"debug_scores"} |-> rd[f]]

\* C24: a rerank_results call with add_debug_scores on returns the candidates
\* in the order, and with the final_score values, that the same call returns
\* with add_debug_scores off; the breakdown is the only difference
C24_DebugNeverChangesRanking ==
    (out.op = "rerank_results" /\ out.args.add_debug_scores) =>
        /\ \A k \in 1..Len(out.value) : "debug_scores" \in DOMAIN out.value[k]
        /\ [k \in 1..Len(out.value) |-> WithoutDebug(out.value[k])]
               = rerank_results(out.args.results, out.args.query_text,
                                out.args.query_color, out.args.query_category,
                                out.args.weights, FALSE)

\* a debug call returned two candidates, the second one given first, with a
\* score that differs from its vector score
C24_Witness ==
    /\ out.op = "rerank_results"
    /\ out.args.add_debug_scores
    /\ Len(out.value) = 2
    /\ WithoutScore(out.value[1]) = out.args.results[2]
    /\ out.args.results[1] # out.args.results[2]
    /\ out.value[1].final_score # out.value[1].debug_scores.vector_score
    /\ out.value[1].debug_scores.final_score = out.value[1].final_score

\* ---------------------------------------------------------------- C25
\* C25: scoring is free of side effects: rerank_results leaves the candidate
\* records passed to it as they were, and a call that runs while other calls
\* score the same list returns what it returns when it runs alone
C25_ScoringIsSideEffectFree ==
    \A p \in Procs :
        pc[p] = "rerank_returned" =>
            /\ out.results = out.passed
            /\ frame[p].value
                   = rerank_results(out.passed, NoText, frame[p].query_color,
                                    NoText, NoWeights, FALSE)

\* the second half alone: what a call returns, whatever it did to the list
C25_ReturnsWhatItReturnsAlone ==
    \A p \in Procs :
        pc[p] = "rerank_returned" =>
            frame[p].value
                = rerank_results(out.passed, NoText, frame[p].query_color,
                                 NoText, NoWeights, FALSE)

\* ---------------------------------------------------------------- C26
\* the step in which search_by_text_ab answers a request
AbAnswers == \E p \in Procs : pc[p] = "ab_endpoint" /\ pc'[p] = "idle"

\* C26: a /search-ab/text request whose retrieval fails is answered with an
\* error status, never with 200 and an empty list, and appends nothing to the
\* event log; a request appends its search event only when the strategy
\* returned, and then answers 200
C26_FailedRetrievalLogsNothing ==
    [][AbAnswers =>
         /\ out'.fails =>
                /\ out'.status_code # 200
                /\ _events' = _events
                /\ log_file' = log_file
                /\ redis_events' = redis_events
         /\ _events' # _events =>
                /\ ~out'.fails
                /\ out'.status_code = 200
                /\ Len(_events') = Len(_events) + 1
                /\ _events'[Len(_events')].event_type = "search"]_vars

\* a request failed with 500 after an earlier request had logged its search
C26_Witness ==
    /\ out.op = "search_by_text_ab"
    /\ out.fails
    /\ out.status_code = 500
    /\ out.results = <<>>
    /\ Len(_events) = 1

\* ---------------------------------------------------------------- C27
\* C27: every click-through rate get_ctr reports, overall and per variant,
\* lies between 0.0 and 1.0, whatever impressions and clicks were logged
C27_CtrWithinUnitInterval ==
    \A u \in Users \cup {NoArg}, v \in VariantArgs, d \in DaysArgs :
        LET answer == get_ctr(u, v, d)
            InUnit(q) == ~Less(q, Quotient(0, 1)) /\ ~Less(Quotient(1, 1), q)
        IN /\ InUnit(answer.ctr)
           /\ "by_variant" \in DOMAIN answer =>
                  \A k \in VariantNames : InUnit(answer.by_variant[k].ctr)

\* ---------------------------------------------------------------- C28
\* the ranks get_rank_metrics answered about, when it found any
RanksAnswered ==
    IF out.op = "get_rank_metrics" /\ out.answered THEN out.found ELSE <<>>

\* the number of the ranks for which Test holds
CountRanks(ranks, Test(_)) == Cardinality({i \in 1..Len(ranks) : Test(ranks[i])})

\* minimum, maximum and histogram are those of the ranks
ExtremesAndHistogram(ranks, value) ==
    /\ \E i \in 1..Len(ranks) : ranks[i] = value.min_rank
    /\ \E i \in 1..Len(ranks) : ranks[i] = value.max_rank
    /\ \A i \in 1..Len(ranks) :
           value.min_rank <= ranks[i] /\ ranks[i] <= value.max_rank
    /\ value.min_rank <= value.median_rank
    /\ value.median_rank <= value.max_rank
    /\ DOMAIN value.clicks_by_rank = {ranks[i] : i \in 1..Len(ranks)}
    /\ \A r \in DOMAIN value.clicks_by_rank :
           value.clicks_by_rank[r] = CountRanks(ranks, LAMBDA x : x = r)
    /\ value.total_clicks = Len(ranks)
    /\ value.total_clicks
           = SumSeq([i \in 1..Len(ranks) |->
                       IF \E j \in 1..(i - 1) : ranks[j] = ranks[i] THEN 0
                       ELSE value.clicks_by_rank[ranks[i]]])

\* C28 as claimed: for a non-empty set of clicks get_rank_metrics reports the
\* true mean and the true median (the mean of the two middle ranks when the
\* number of clicks is even), the minimum, the maximum and the histogram
C28_TrueMeanAndMedian ==
    RanksAnswered # <<>> =>
        LET ranks == RanksAnswered
            n == Len(ranks)
            sorted == Sorted(ranks)
        IN /\ out.value.avg_rank.num * n = SumSeq(ranks) * out.value.avg_rank.den
           /\ IF n % 2 = 1
              THEN out.value.median_rank = sorted[(n + 1) \div 2]
              ELSE 2 * out.value.median_rank
                       = sorted[n \div 2] + sorted[(n \div 2) + 1]
           /\ ExtremesAndHistogram(ranks, out.value)

\* C28, amended: avg_rank is the mean rounded to two decimals, median_rank is
\* the upper median (at most half of the ranks are below it, more than half
\* are not above it), and minimum, maximum and histogram are the true ones
C28_RoundedMeanAndUpperMedian ==
    RanksAnswered # <<>> =>
        LET ranks == RanksAnswered
            n == Len(ranks)
            avg == out.value.avg_rank
            off == avg.num * n - 100 * SumSeq(ranks)
        IN /\ avg.den = 100
           /\ 2 * off <= n
           /\ 2 * (0 - off) <= n
           /\ 2 * CountRanks(ranks, LAMBDA x : x < out.value.median_rank) <= n
           /\ 2 * CountRanks(ranks, LAMBDA x : x <= out.value.median_rank) > n
           /\ \E i \in 1..n : ranks[i] = out.value.median_rank
           /\ ExtremesAndHistogram(ranks, out.value)

\* three clicks at ranks 2, 0, 0: mean 0.67, median 0, histogram {0: 2, 2: 1}
C28_Witness ==
    /\ out.op = "get_rank_metrics"
    /\ out.answered
    /\ out.found = <<2, 0, 0>>
    /\ out.value.avg_rank = Quotient(67, 100)
    /\ out.value.median_rank = 0
    /\ out.value.clicks_by_rank = (0 :> 2) @@ (2 :> 1)

\* ---------------------------------------------------------------- C29
\* C29: without a database (db is None) log_click, log_impression and reset
\* answer False and nothing is recorded, and get_ctr, get_rank_metrics and
\* get_response_time_metrics answer zero-valued results, none of them raising
C29_NoDatabaseAnswers ==
    [][~db =>
         /\ clicks_collection' = EmptyBag
         /\ impressions_collection' = EmptyBag
         /\ out'.op \in {"ct_log_click", "ct_log_impression", "ct_reset"} =>
                out'.value = FALSE
         /\ out'.op = "get_ctr" =>
                /\ ~out'.failed
                /\ out'.value.num = 0
         /\ \A u \in Users \cup {NoArg}, v \in VariantArgs, d \in DaysArgs :
                /\ get_ctr(u, v, d).ctr.num = 0
                /\ get_ctr(u, v, d).clicks = 0
                /\ get_ctr(u, v, d).impressions = 0
         /\ out'.op = "get_rank_metrics" =>
                /\ out'.value.avg_rank.num = 0
                /\ out'.value.clicks_by_rank = <<>>
         /\ out'.op = "get_response_time_metrics" =>
                /\ out'.value.avg_response_time_ms.num = 0
                /\ out'.value.count = 0]_vars

\* without a database a click was refused and nothing was recorded
C29_Witness ==
    /\ ~db
    /\ out.op = "ct_log_click"
    /\ out.value = FALSE
    /\ clicks_collection = EmptyBag
    /\ impressions_collection = EmptyBag

\* ---------------------------------------------------------------- C30
\* C30: in every get_metrics result the events are the searches and the
\* clicks, the searches and the clicks are those of the two variants, and
\* total_assignments is at least the number of users with an event in the log
C30_MetricsAddUp ==
    out.op = "get_metrics" =>
        /\ out.value.total_events
               = out.value.search_events + out.value.click_events
        /\ out.value.search_events
               = out.value.search_v1.count + out.value.search_v2.count
        /\ out.value.click_events
               = out.value.search_v1.clicks + out.value.search_v2.clicks
        /\ out.value.total_assignments
               >= Cardinality({_events[i].user_id : i \in 1..Len(_events)})

\* the three sums alone, which hold under every backend
C30_CountsAddUp ==
    out.op = "get_metrics" =>
        /\ out.value.total_events
               = out.value.search_events + out.value.click_events
        /\ out.value.search_events
               = out.value.search_v1.count + out.value.search_v2.count
        /\ out.value.click_events
               = out.value.search_v1.clicks + out.value.search_v2.clicks

============================================================================
